---- MODULE Spec2Model ----
(***************************************************************************)
(* Request admission and account scheduling of the sub2api gateway.        *)
(*                                                                         *)
(*   Slot Ledger         concurrencyCache, sorted sets in Redis            *)
(*   Wait-Queue Ledger   concurrencyCache, total / updated / counts keys   *)
(*   Candidate Selector  AtomicScheduler + atomic_select.lua               *)
(*   Circuit Breaker     CircuitBreaker, process-local maps                *)
(*                                                                         *)
(* Every Redis script is one atomic step of the store, so concurrent       *)
(* callers are interleavings of whole script executions.  Each component   *)
(* has its own specification (SpecSlot, SpecWait, SpecWaitLoss, SpecSel,   *)
(* SpecCB); the variables of the other components stay at their initial    *)
(* values.  SpecSlotShared and SpecSelTwice are the slot ledger and the    *)
(* selector with callers that share a token or invoke a release handle     *)
(* twice, SpecTransport runs the admission calls against a store whose     *)
(* commands may fail, and SpecCBLive is the breaker with a clock that      *)
(* keeps running.  SpecBoth runs the slot ledger and the selector on one   *)
(* store, SpecSelOnce is the selector with every request id and release    *)
(* handle used once, and SpecCBLock runs the breaker's methods statement   *)
(* by statement in concurrent goroutines under cb.mu.                      *)
(* The variable ret holds what the last operation returned to its          *)
(* caller; the variables named ...Burst / ...Hist are history variables    *)
(* that record calls and results and never influence the program state.    *)
(***************************************************************************)
EXTENDS Integers, FiniteSets, Sequences, TLC

VARIABLES
    now,            \* Redis server clock, seconds (redis.call('TIME')[1])
    slotKey,        \* the scope the model follows (concurrency:account:1 or :user:1)
    slotSet,        \* requestID -> score: the sorted set at slotKey
    slotExpire,     \* time at which the key's EXPIRE fires, or NoTTL
    slotMax,        \* the maxConcurrency the callers pass for this scope
    slotBurst,      \* history: acquire results since the set was last empty
    slotHeld,       \* history: token -> requests granted under it and not released
    slotShare,      \* how many concurrent requests the callers run under one token
    wq,             \* the three wait-queue keys: total, updated, counts, and their TTLs
    waitMax,        \* the maxWait the callers pass
    selConc,        \* hash account_concurrency: account -> counter, NoField = no field
    selMarkers,     \* the slot:{account}:{requestID} keys that exist
    selHandle,      \* requestID -> what its caller holds: the release handle's progress
    selBurst,       \* history: results of single-candidate calls on WatchedAccount
    cbNow,          \* time.Now() of the gateway process, in minutes
    failureCount,   \* CircuitBreaker.failureCount: account -> count, NoEntry = no key
    lastFailTime,   \* CircuitBreaker.lastFailTime: account -> time, NoEntry = no key
    cbStreak,       \* history: failures in a row less than resetTimeout apart
    cbLastCall,     \* history: time of the account's last RecordFailure call
    cbSince,        \* history: failures since the last RecordSuccess (up to threshold)
    cbMu,           \* CircuitBreaker.mu: the goroutines holding it as writer / as reader
    cbCall,         \* goroutine -> the breaker method it is in, its position and locals
    cbDone,         \* history: RecordFailure calls returned since the last RecordSuccess
    ret             \* return value of the last operation

slotVars == <<slotKey, slotSet, slotExpire, slotMax, slotBurst, slotHeld, slotShare>>
waitVars == <<wq, waitMax>>
selVars == <<selConc, selMarkers, selHandle, selBurst>>
cbVars == <<cbNow, failureCount, lastFailTime, cbStreak, cbLastCall, cbSince>>
muVars == <<cbMu, cbCall, cbDone>>

vars == <<now, ret, slotVars, waitVars, selVars, cbVars, muVars>>

\* what the operations of one component leave alone
notSlot == <<waitVars, selVars, cbVars, muVars>>
notWait == <<slotVars, selVars, cbVars, muVars>>
notSel == <<now, slotVars, waitVars, cbVars, muVars>>
notCB == <<now, slotVars, waitVars, selVars, muVars>>
\* what one statement of a breaker method leaves alone
notMu == <<now, slotVars, waitVars, selVars, cbNow, cbStreak, cbLastCall, cbSince>>

(***************************************************************************)
(* Bounds of the model.                                                    *)
(***************************************************************************)
NumTokens == 4
\* largest maxConcurrency a scope is configured with
MaxConcurrency == 3
\* last value of the store clock
MaxTime == 4
\* slotTTLSeconds of the cache, in ticks of the store clock
SlotTTL == 2

\* users of the wait queue
NumUsers == 3
\* largest maxWait a user is configured with
MaxWait == 2
\* cleanup limit of IncrementWaitCount / DecrementWaitCount (200 in the code)
WaitCleanupLimit == 1
\* cleanup limit of GetTotalWaitCount (500 in the code)
TotalCleanupLimit == 2

\* accounts the selector chooses among
NumAccounts == 2
\* request ids of selectAndAcquire calls
NumRequests == 3
\* largest MaxConcurrency of a candidate
MaxCandidateConcurrency == 2
\* largest Priority of a candidate (priorities are 1..MaxPriority)
MaxPriority == 2
\* math.random() draws k / JitterSteps, k in 0..JitterSteps-1
JitterSteps == 2
\* concurrent requests that run under one holder token when callers share it
MaxSharers == 2
\* how many times the caller of one reservation invokes its release handle
MaxReleaseCalls == 2
\* accounts the circuit breaker tracks
NumBreakerAccounts == 1
\* goroutines that call the breaker concurrently
NumGoroutines == 2
\* last value of the process clock, in minutes
MaxClock == 6
\* RecordFailure calls are followed up to this failure count
MaxFailures == 6

Tokens == 1..NumTokens
Users == 1..NumUsers
BreakerAccounts == 1..NumBreakerAccounts
Goroutines == 1..NumGoroutines
Accounts == 1..NumAccounts
Requests == 1..NumRequests
Absent == -1
NoTTL == -1

(***************************************************************************)
(* Redis commands on one sorted set z (member -> score, Absent = no member)*)
(***************************************************************************)
EmptyZSet == [m \in Tokens |-> Absent]

ZMembers(z) == {m \in DOMAIN z : z[m] # Absent}

ZCARD(z) == Cardinality(ZMembers(z))

\* a lookup that never finds the member
ZSCORENeverFound(z, m) == Absent

ZSCORE(z, m) == z[m]

\* an add that keeps the score of a member already in the set (ZADD NX)
ZADDKeepsScore(z, score, m) == IF z[m] # Absent THEN z ELSE [z EXCEPT ![m] = score]

ZADD(z, score, m) == [z EXCEPT ![m] = score]

\* a removal that empties the set
ZREMEverything(z, m) == [x \in DOMAIN z |-> Absent]

ZREM(z, m) == [z EXCEPT ![m] = Absent]

\* a range removal that keeps the members whose score is exactly hi
ZREMRANGEBYSCOREExclusive(z, hi) ==
    [m \in DOMAIN z |-> IF z[m] # Absent /\ z[m] < hi THEN Absent ELSE z[m]]

\* ZREMRANGEBYSCORE key -inf hi
ZREMRANGEBYSCORE(z, hi) ==
    [m \in DOMAIN z |-> IF z[m] # Absent /\ z[m] <= hi THEN Absent ELSE z[m]]

\* Redis deletes a sorted set (and its TTL) when its last member goes.
KeyTTL(z, exp) == IF ZMembers(z) = {} THEN NoTTL ELSE exp

(***************************************************************************)
(* Keys                                                                    *)
(***************************************************************************)
accountSlotKeyPrefix == "concurrency:account:"
userSlotKeyPrefix == "concurrency:user:"

accountSlotKey(accountID) == <<accountSlotKeyPrefix, accountID>>

userSlotKey(userID) == <<userSlotKeyPrefix, userID>>

\* one account and one user scope
SlotKeys == {accountSlotKey(1), userSlotKey(1)}

(***************************************************************************)
(* acquireScript: sweep, refresh an existing member, else add when the     *)
(* live cardinality is below maxConcurrency.  Result: the set, its TTL and *)
(* the script's return value.                                              *)
(***************************************************************************)
\* a capacity check that is off by one (for the mutation check of C1, C2)
CapacityCheckInclusive(count, maxConcurrency) == count <= maxConcurrency

\* "if count < maxConcurrency"
CapacityCheck(count, maxConcurrency) == count < maxConcurrency

\* a key expiry one tick shorter than the members' ttl
EXPIREShort(t, ttl) == t + ttl - 1

\* redis.call('EXPIRE', key, ttl) at time t: the time at which the key goes
EXPIRE(t, ttl) == t + ttl

acquireScript(z, exp, maxConcurrency, ttl, requestID, t) ==
    LET expireBefore == t - ttl
        swept == ZREMRANGEBYSCORE(z, expireBefore)
        sweptExp == KeyTTL(swept, exp)
    IN  IF ZSCORE(swept, requestID) # Absent
        THEN [set |-> ZADD(swept, t, requestID), exp |-> EXPIRE(t, ttl), val |-> 1]
        ELSE IF CapacityCheck(ZCARD(swept), maxConcurrency)
             THEN [set |-> ZADD(swept, t, requestID), exp |-> EXPIRE(t, ttl), val |-> 1]
             ELSE [set |-> swept, exp |-> sweptExp, val |-> 0]

\* the number of members the sweep of a script run at time t removes
SlotsSwept(z, ttl, t) == ZCARD(z) - ZCARD(ZREMRANGEBYSCORE(z, t - ttl))

\* getCountScript: sweep and return the cardinality
getCountScript(z, exp, ttl, t) ==
    LET swept == ZREMRANGEBYSCORE(z, t - ttl)
    IN  [set |-> swept, exp |-> KeyTTL(swept, exp), val |-> ZCARD(swept)]

(***************************************************************************)
(* History of a burst of acquire calls on one key.                         *)
(***************************************************************************)
NoBurst == [t \in Tokens |-> "none"]

\* history of the requests running under each token.  A granted acquire under
\* a token that share requests already run under is a refresh by one of them.
NoneHeld == [t \in Tokens |-> 0]

GrantedUnder(held, requestID, share) ==
    [held EXCEPT ![requestID] = IF @ < share THEN @ + 1 ELSE @]

ReleasedUnder(held, requestID) ==
    [held EXCEPT ![requestID] = IF @ > 0 THEN @ - 1 ELSE 0]

HeldTokens(held) == {t \in DOMAIN held : held[t] > 0}

FreshBurst == [ok |-> TRUE, res |-> NoBurst]

\* after a release or a clock tick the burst is over; a new one can start
\* when the set is empty
ResetBurst(z) == [ok |-> ZMembers(z) = {}, res |-> NoBurst]

\* an acquire by requestID with result val; the call starts a new burst when
\* it finds the set empty after its sweep
RecordAcquire(b, z, t, ttl, requestID, val) ==
    LET base == IF ZMembers(ZREMRANGEBYSCORE(z, t - ttl)) = {} THEN FreshBurst ELSE b
        word == IF val = 1 THEN "granted" ELSE "denied"
    IN  IF base.res[requestID] # "none"
        THEN [base EXCEPT !.ok = FALSE]
        ELSE [base EXCEPT !.res[requestID] = word]

\* what became of a command sent to the store: the reply arrived, the command
\* never reached the store (refused connection, pool timeout), or the store
\* ran it and the reply did not arrive (read timeout, broken connection)
Transports == {"ok", "unsent", "lost"}

ReachableStore == "ok"

scriptApplied(transport) == transport # "unsent"

transportError(transport) == transport # "ok"

\* a wrapper that reports a failed store call as a grant
acquireReturnFailOpen(result, failed) ==
    [val |-> failed \/ result = 1, err |-> failed]

\* if err != nil { return false, err }; return result == 1, nil
acquireReturn(result, failed) ==
    IF failed THEN [val |-> FALSE, err |-> TRUE]
    ELSE [val |-> result = 1, err |-> FALSE]

(***************************************************************************)
(* Slot Ledger operations.  Every script touches only KEYS[1], so the      *)
(* model follows one scope, slotKey, picked at the start among the account *)
(* and user keys; a call on another key leaves this one as it is.          *)
(***************************************************************************)
Acquire(key, maxConcurrency, requestID, transport) ==
    LET r == IF scriptApplied(transport)
             THEN acquireScript(slotSet, slotExpire, maxConcurrency, SlotTTL, requestID, now)
             ELSE [set |-> slotSet, exp |-> slotExpire, val |-> 0]
        out == acquireReturn(r.val, transportError(transport))
    IN  /\ key = slotKey
        /\ slotSet' = r.set
        /\ slotExpire' = r.exp
        /\ slotBurst' = IF scriptApplied(transport)
                        THEN RecordAcquire(slotBurst, slotSet, now, SlotTTL, requestID, r.val)
                        ELSE slotBurst
        /\ slotHeld' = IF out.val THEN GrantedUnder(slotHeld, requestID, slotShare)
                       ELSE slotHeld
        /\ ret' = [op |-> "acquire", tok |-> requestID, val |-> out.val,
                   swept |-> SlotsSwept(slotSet, SlotTTL, now),
                   refreshed |-> (r.val = 1 /\ ZCARD(r.set) + SlotsSwept(slotSet, SlotTTL, now)
                                                    = ZCARD(slotSet)),
                   transport |-> transport, err |-> out.err]
        /\ UNCHANGED <<now, slotKey, slotMax, slotShare, notSlot>>

AcquireAccountSlot(accountID, maxConcurrency, requestID, transport) ==
    Acquire(accountSlotKey(accountID), maxConcurrency, requestID, transport)

AcquireUserSlot(userID, maxConcurrency, requestID, transport) ==
    Acquire(userSlotKey(userID), maxConcurrency, requestID, transport)

\* c.rdb.ZRem(ctx, key, requestID): the store call runs on the ctx the caller
\* passes, and a call on a canceled ctx returns ctx.Err() without reaching
\* the store
callerContextDone(ctxCanceled) == ctxCanceled

Release(key, requestID, ctxCanceled) ==
    LET failed == callerContextDone(ctxCanceled)
        z == IF failed THEN slotSet ELSE ZREM(slotSet, requestID)
    IN  /\ key = slotKey
        /\ slotSet' = z
        /\ slotExpire' = KeyTTL(z, slotExpire)
        /\ slotBurst' = ResetBurst(z)
        /\ slotHeld' = IF failed THEN slotHeld ELSE ReleasedUnder(slotHeld, requestID)
        /\ ret' = [op |-> "release", tok |-> requestID,
                   removed |-> ZCARD(slotSet) - ZCARD(z),
                   ctxCanceled |-> ctxCanceled, err |-> failed]
        /\ UNCHANGED <<now, slotKey, slotMax, slotShare, notSlot>>

ReleaseAccountSlot(accountID, requestID, ctxCanceled) ==
    Release(accountSlotKey(accountID), requestID, ctxCanceled)

ReleaseUserSlot(userID, requestID, ctxCanceled) ==
    Release(userSlotKey(userID), requestID, ctxCanceled)

GetConcurrency(key) ==
    LET r == getCountScript(slotSet, slotExpire, SlotTTL, now)
    IN  /\ key = slotKey
        /\ slotSet' = r.set
        /\ slotExpire' = r.exp
        /\ ret' = [op |-> "count", val |-> r.val,
                   swept |-> SlotsSwept(slotSet, SlotTTL, now)]
        /\ UNCHANGED <<now, slotKey, slotMax, slotBurst, slotHeld, slotShare, notSlot>>

GetAccountConcurrency(accountID) ==
    GetConcurrency(accountSlotKey(accountID))

GetUserConcurrency(userID) ==
    GetConcurrency(userSlotKey(userID))

\* The store clock advances by one second; a key whose EXPIRE time is reached
\* is gone (an expired key is never visible to a later command).
KeyExpired(exp, t) == exp # NoTTL /\ t >= exp

SlotTick ==
    /\ now < MaxTime
    /\ now' = now + 1
    /\ slotSet' = IF KeyExpired(slotExpire, now + 1) THEN EmptyZSet ELSE slotSet
    /\ slotExpire' = IF KeyExpired(slotExpire, now + 1) THEN NoTTL ELSE slotExpire
    /\ slotBurst' = ResetBurst(slotSet')
    /\ ret' = [op |-> "tick", dropped |-> ZCARD(slotSet) - ZCARD(slotSet')]
    /\ UNCHANGED <<slotKey, slotMax, slotHeld, slotShare, notSlot>>

(***************************************************************************)
(* Wait-Queue Ledger: three keys.                                          *)
(*   total    string key holding an integer, NoKey when the key is absent  *)
(*   updated  sorted set  userKey -> last update time                      *)
(*   counts   hash        userKey -> wait count, Absent = no field         *)
(*   exp      per key, the time its EXPIRE fires or NoTTL                  *)
(***************************************************************************)
NoKey == -1000

waitQueueTotalKey == "concurrency:wait:total"
waitQueueUpdatedKey == "concurrency:wait:updated"
waitQueueCountsKey == "concurrency:wait:counts"

\* strconv.FormatInt(userID, 10).  The ids of the model are 1..9, one digit
\* each, so the byte order of the strings (the order of equal scores in a
\* sorted set) is the order of the ids and the id stands for its string.
waitQueueKey(userID) == userID

EmptyUserMap == [u \in Users |-> Absent]

EmptyWaitQueue ==
    [total |-> NoKey, updated |-> EmptyUserMap, counts |-> EmptyUserMap,
     exp |-> [total |-> NoTTL, updated |-> NoTTL, counts |-> NoTTL]]

\* HGET countsKey uid, with Lua's  or '0'
HGET0(h, f) == IF h[f] = Absent THEN 0 ELSE h[f]

HFields(h) == {f \in DOMAIN h : h[f] # Absent}

RECURSIVE SumOver(_, _)
SumOver(h, S) ==
    IF S = {} THEN 0
    ELSE LET f == CHOOSE x \in S : TRUE IN h[f] + SumOver(h, S \ {f})

\* sum of HVALS
SumCounts(h) == SumOver(h, HFields(h))

\* SETNX totalKey 0
SETNX0(q) == IF q.total = NoKey THEN [q EXCEPT !.total = 0] ELSE q

\* a hash or sorted set that loses its last entry is deleted with its TTL
DropEmpty(q) ==
    [q EXCEPT !.exp.updated = IF ZMembers(q.updated) = {} THEN NoTTL ELSE @,
              !.exp.counts = IF HFields(q.counts) = {} THEN NoTTL ELSE @]

\* EXPIRE on the three keys; EXPIRE does nothing on a key that does not exist
ExpireAll(q, at) ==
    [q EXCEPT !.exp.total = IF q.total = NoKey THEN NoTTL ELSE at,
              !.exp.updated = IF ZMembers(q.updated) = {} THEN NoTTL ELSE at,
              !.exp.counts = IF HFields(q.counts) = {} THEN NoTTL ELSE at]

\* a range read that returns the highest scores first
HighestScoreFirst(z, x, y) == z[x] > z[y] \/ (z[x] = z[y] /\ x <= y)

\* the order of a sorted set's range read: ascending score, then member
LowestScoreFirst(z, x, y) == z[x] < z[y] \/ (z[x] = z[y] /\ x <= y)

\* ZRANGEBYSCORE key -inf hi LIMIT 0 limit: members by (score, member)
RECURSIVE ZRangeSorted(_, _, _)
ZRangeSorted(z, S, limit) ==
    IF S = {} \/ limit = 0 THEN <<>>
    ELSE LET m == CHOOSE x \in S : \A y \in S : LowestScoreFirst(z, x, y)
         IN  <<m>> \o ZRangeSorted(z, S \ {m}, limit - 1)

\* a range read that ignores its LIMIT
ZRANGEBYSCORENoLimit(z, hi, limit) ==
    ZRangeSorted(z, {m \in ZMembers(z) : z[m] <= hi}, Cardinality(ZMembers(z)))

ZRANGEBYSCORE(z, hi, limit) ==
    ZRangeSorted(z, {m \in ZMembers(z) : z[m] <= hi}, limit)

\* a sweep that forgets the total of users with one ticket (mutation check of C3)
SweepSkipsSingleTicket(c) == c > 1

\* the body of the cleanup loop for one expired user: "if c > 0 then DECRBY"
SweepLowersTotal(c) == c > 0

SweepOne(q, uid) ==
    LET c == HGET0(q.counts, uid)
        q1 == IF SweepLowersTotal(c) THEN [q EXCEPT !.total = @ - c] ELSE q
    IN  DropEmpty([q1 EXCEPT !.counts[uid] = Absent, !.updated[uid] = Absent])

RECURSIVE SweepLoop(_, _)
SweepLoop(q, expired) ==
    IF expired = <<>> THEN q
    ELSE SweepLoop(SweepOne(q, Head(expired)), Tail(expired))

\* "Cleanup expired users (bounded)"
CleanupExpired(q, t, ttl, cleanupLimit) ==
    SweepLoop(q, ZRANGEBYSCORE(q.updated, t - ttl, cleanupLimit))

SweptCount(q, t, ttl, cleanupLimit) ==
    Len(ZRANGEBYSCORE(q.updated, t - ttl, cleanupLimit))

\* an admission test that lets a user at maxWait in once more
WaitLimitReachedLate(current, maxWait) == current > maxWait

\* "if current >= maxWait then return 0"
WaitLimitReached(current, maxWait) == current >= maxWait

\* a rejection that still records the user's activity
NotAdmittedTouchesActivity(q, userID, t) == [q EXCEPT !.updated[userID] = t]

\* "if current >= maxWait then return 0 end": the keys as the sweep left them
NotAdmitted(q, userID, t) == q

incrementWaitScript(q0, userID, maxWait, ttl, cleanupLimit, t) ==
    LET q == CleanupExpired(SETNX0(q0), t, ttl, cleanupLimit)
        current == HGET0(q.counts, userID)
        newVal == current + 1
        q2 == [q EXCEPT !.counts[userID] = newVal,
                        !.updated[userID] = t,
                        !.total = @ + 1]
    IN  IF WaitLimitReached(current, maxWait)
        THEN [q |-> NotAdmitted(q, userID, t), val |-> 0]
        ELSE [q |-> ExpireAll(q2, t + ttl * 2), val |-> 1]

\* a test that lets a user without a ticket through to the decrement
NoTicketNegativeOnly(current) == current < 0

\* "if current <= 0 then return 1"
NoTicket(current) == current <= 0

\* a test that keeps the entries of a user whose count reached zero
LastTicketNegativeOnly(newVal) == newVal < 0

\* "if newVal <= 0 then HDEL countsKey userID; ZREM updatedKey userID"
LastTicket(newVal) == newVal <= 0

decrementWaitScript(q0, userID, ttl, cleanupLimit, t) ==
    LET q == CleanupExpired(SETNX0(q0), t, ttl, cleanupLimit)
        current == HGET0(q.counts, userID)
        newVal == current - 1
        q2 == IF LastTicket(newVal)
              THEN DropEmpty([q EXCEPT !.counts[userID] = Absent,
                                       !.updated[userID] = Absent])
              ELSE [q EXCEPT !.counts[userID] = newVal, !.updated[userID] = t]
        q3 == [q2 EXCEPT !.total = @ - 1]
    IN  IF NoTicket(current)
        THEN [q |-> q, val |-> 1]
        ELSE [q |-> ExpireAll(q3, t + ttl * 2), val |-> 1]

getTotalWaitScript(q0, ttl, cleanupLimit, t) ==
    LET q == CleanupExpired(SETNX0(q0), t, ttl, cleanupLimit)
        \* "If totalKey got lost but counts exist, recompute once": plain SET
        \* stores the sum and drops the key's TTL
        q1 == IF q.total = NoKey
              THEN [q EXCEPT !.total = SumCounts(q.counts), !.exp.total = NoTTL]
              ELSE q
        q2 == ExpireAll(q1, t + ttl * 2)
        result == IF q2.total = NoKey THEN 0 ELSE q2.total
    IN  IF result < 0
        THEN [q |-> [q2 EXCEPT !.total = 0, !.exp.total = NoTTL], val |-> 0]
        ELSE [q |-> q2, val |-> result]

(***************************************************************************)
(* Wait-Queue Ledger operations                                            *)
(***************************************************************************)
\* IncrementWaitCount: if err != nil { return false, err }; return result == 1, nil
incrementReturn(result, failed) ==
    IF failed THEN [val |-> FALSE, err |-> TRUE]
    ELSE [val |-> result = 1, err |-> FALSE]

IncrementWaitCount(userID, maxWait, transport) ==
    LET r == IF scriptApplied(transport)
             THEN incrementWaitScript(wq, waitQueueKey(userID), maxWait, SlotTTL,
                                      WaitCleanupLimit, now)
             ELSE [q |-> wq, val |-> 0]
        out == incrementReturn(r.val, transportError(transport))
    IN  /\ wq' = r.q
        /\ ret' = [op |-> "increment", user |-> userID, val |-> out.val,
                   swept |-> IF scriptApplied(transport)
                             THEN SweptCount(wq, now, SlotTTL, WaitCleanupLimit) ELSE 0,
                   transport |-> transport, err |-> out.err]
        /\ UNCHANGED <<now, waitMax, notWait>>

DecrementWaitCount(userID) ==
    LET r == decrementWaitScript(wq, waitQueueKey(userID), SlotTTL,
                                 WaitCleanupLimit, now)
    IN  /\ wq' = r.q
        /\ ret' = [op |-> "decrement", user |-> userID, val |-> TRUE,
                   swept |-> SweptCount(wq, now, SlotTTL, WaitCleanupLimit),
                   last |-> /\ HGET0(wq.counts, waitQueueKey(userID)) = 1
                            /\ wq'.total = wq.total - 1]
        /\ UNCHANGED <<now, waitMax, notWait>>

GetTotalWaitCount ==
    LET r == getTotalWaitScript(wq, SlotTTL, TotalCleanupLimit, now)
    IN  /\ wq' = r.q
        /\ ret' = [op |-> "total", val |-> r.val, lost |-> (wq.total = NoKey),
                   swept |-> SweptCount(wq, now, SlotTTL, TotalCleanupLimit)]
        /\ UNCHANGED <<now, waitMax, notWait>>

\* the store clock advances; keys whose EXPIRE time is reached are gone
WaitTick ==
    /\ now < MaxTime
    /\ now' = now + 1
    /\ wq' = [total |-> IF KeyExpired(wq.exp.total, now + 1) THEN NoKey ELSE wq.total,
              updated |-> IF KeyExpired(wq.exp.updated, now + 1)
                          THEN EmptyUserMap ELSE wq.updated,
              counts |-> IF KeyExpired(wq.exp.counts, now + 1)
                         THEN EmptyUserMap ELSE wq.counts,
              exp |-> [k \in {"total", "updated", "counts"} |->
                          IF KeyExpired(wq.exp[k], now + 1) THEN NoTTL ELSE wq.exp[k]]]
    /\ ret' = [op |-> "tick"]
    /\ UNCHANGED <<waitMax, notWait>>

\* the total key alone is wiped (e.g. a store restart that kept the other keys)
LoseTotalKey ==
    /\ wq.total # NoKey
    /\ wq' = [wq EXCEPT !.total = NoKey, !.exp.total = NoTTL]
    /\ ret' = [op |-> "lose"]
    /\ UNCHANGED <<now, waitMax, notWait>>

(***************************************************************************)
(* Candidate Selector: atomic_select.lua and AtomicScheduler.               *)
(***************************************************************************)
NoField == -1000

\* the name of the hash that holds the selector's counters
accountConcurrencyKey == <<"account_concurrency">>

\* a counter read that adds the members of the account's slot-ledger set
HGETCounterWithLedger(h, accountID) ==
    (IF h[accountID] = NoField THEN 0 ELSE h[accountID])
    + (IF slotKey = accountSlotKey(accountID) THEN ZCARD(slotSet) ELSE 0)

\* tonumber(redis.call('HGET', 'account_concurrency', id) or 0)
HGETCounter(h, accountID) == IF h[accountID] = NoField THEN 0 ELSE h[accountID]

\* HINCRBY account_concurrency id delta (an absent field counts from 0)
HINCRBY(h, accountID, delta) ==
    [h EXCEPT ![accountID] = HGETCounter(h, accountID) + delta]

\* a deletion that empties the whole hash
HDELWholeHash(h, accountID) == [a \in DOMAIN h |-> NoField]

\* HDEL account_concurrency id
HDEL(h, accountID) == [h EXCEPT ![accountID] = NoField]

\* the store keeps a hash counter as its decimal string
DecimalDigits == <<"0", "1", "2", "3", "4", "5", "6", "7", "8", "9">>

RECURSIVE NaturalString(_)
NaturalString(n) ==
    IF n < 10 THEN <<DecimalDigits[n + 1]>>
    ELSE Append(NaturalString(n \div 10), DecimalDigits[(n % 10) + 1])

\* the reply of HGET for a field that HINCRBY wrote
CounterString(n) ==
    IF n < 0 THEN <<"-">> \o NaturalString(-n) ELSE NaturalString(n)

DigitValue(c) == CHOOSE d \in 0..9 : DecimalDigits[d + 1] = c

RECURSIVE ScanDigits(_, _)
ScanDigits(str, acc) ==
    IF str = <<>> \/ ~(\E d \in 0..9 : DecimalDigits[d + 1] = Head(str)) THEN acc
    ELSE ScanDigits(Tail(str), 10 * acc + DigitValue(Head(str)))

\* fmt.Sscanf(val, "%d", &count): an optional sign, then the decimal digits
Sscanf(val) ==
    IF val # <<>> /\ Head(val) = "-" THEN 0 - ScanDigits(Tail(val), 0)
    ELSE IF val # <<>> /\ Head(val) = "+" THEN ScanDigits(Tail(val), 0)
    ELSE ScanDigits(val, 0)

\* GetAccountConcurrency: HGet, redis.Nil gives 0, otherwise the parsed reply
getAccountConcurrency(h, accountID) ==
    IF h[accountID] = NoField THEN 0
    ELSE Sscanf(CounterString(h[accountID]))

\* 'slot:' .. tostring(account.id) .. ':' .. request_id
slotMarkerKey(accountID, requestID) == <<"slot:", accountID, requestID>>

\* score = priority * 0.5 + load_rate * 0.3 + math.random() * 0.2 with
\* load_rate = current / max_concurrency and math.random() = k / JitterSteps,
\* multiplied by 10 * JitterSteps * max_concurrency to stay in the integers
\* a score in which the priority weighs 0.2 and not 0.5
ScoreTimesLightPriority(priority, current, maxConcurrency, k) ==
    2 * priority * JitterSteps * maxConcurrency
        + 3 * current * JitterSteps
        + 2 * k * maxConcurrency

ScoreTimes(priority, current, maxConcurrency, k) ==
    5 * priority * JitterSteps * maxConcurrency
        + 3 * current * JitterSteps
        + 2 * k * maxConcurrency

\* a.score < b.score for candidates a, b (records id, score parts)
ScoreLess(a, b) ==
    ScoreTimes(a.priority, a.current, a.max_concurrency, a.jitter) * b.max_concurrency
        < ScoreTimes(b.priority, b.current, b.max_concurrency, b.jitter) * a.max_concurrency

\* the AccountCandidate values a caller may pass for one account
CandidateConfigs == [priority : 1..MaxPriority, max_concurrency : 1..MaxCandidateConcurrency]

\* the candidate lists a caller may pass: account id -> its AccountCandidate
CandidateLists ==
    UNION {[S -> CandidateConfigs] : S \in (SUBSET Accounts) \ {{}}}

\* the table of candidates the script builds (lines 18-37), by account id
CandidateTable(h, candidates, jitter) ==
    [c \in DOMAIN candidates |->
        [id |-> c, priority |-> candidates[c].priority,
         max_concurrency |-> candidates[c].max_concurrency,
         current |-> HGETCounter(h, c), jitter |-> jitter[c]]]

\* the orders table.sort may leave the candidates in: every arrangement in
\* which no later candidate has a smaller score (equal scores in any order)
SortedOrders(table) ==
    LET C == DOMAIN table
        n == Cardinality(C)
    IN  {o \in [1..n -> C] :
            /\ \A i, j \in 1..n : i # j => o[i] # o[j]
            /\ \A i, j \in 1..n : i < j => ~ScoreLess(table[o[j]], table[o[i]])}

\* the account test of the reservation loop, with <= in place of <
HasCapacityOrFull(account) == account.current <= account.max_concurrency

\* the account test of the reservation loop: account.current < account.max_concurrency
HasCapacity(account) == account.current < account.max_concurrency

\* "for _, account in ipairs(candidates)": the first account with capacity, 0 if none
RECURSIVE FirstWithCapacity(_, _, _)
FirstWithCapacity(table, order, i) ==
    IF i > Len(order) THEN 0
    ELSE IF HasCapacity(table[order[i]]) THEN order[i]
    ELSE FirstWithCapacity(table, order, i + 1)

\* the reservation loop taking the best-scored account without the test
BestScored(table, order) == order[1]

\* the reservation loop (lines 43-55): the account it reserves, 0 if none
ReservationTarget(table, order) == FirstWithCapacity(table, order, 1)

\* atomic_select.lua for one sorted order: the hash, the markers and the reply
atomicSelect(h, markers, table, order, requestID) ==
    LET id == ReservationTarget(table, order)
    IN  IF id = 0
        THEN [conc |-> h, markers |-> markers, reply |-> <<0, 0>>]
        ELSE [conc |-> HINCRBY(h, id, 1),
              markers |-> markers \cup {slotMarkerKey(id, requestID)},
              reply |-> <<id, table[id].current + 1>>]

\* what one run of the script may do: one outcome per value of math.random()
\* for each candidate and per order table.sort may produce
selectScriptRuns(h, markers, candidates, requestID) ==
    UNION {
        LET table == CandidateTable(h, candidates, jitter)
        IN  {atomicSelect(h, markers, table, order, requestID) :
                order \in SortedOrders(table)} :
        jitter \in [DOMAIN candidates -> 0..(JitterSteps - 1)]}

\* history: the account whose single-candidate calls are followed
WatchedAccount == CHOOSE a \in Accounts : TRUE

NoSelBurst == [r \in Requests |-> "none"]

FreshSelBurst == [ok |-> TRUE, n |-> 0, res |-> NoSelBurst]

BrokenSelBurst == [ok |-> FALSE, n |-> 0, res |-> NoSelBurst]

\* the burst after a call with the given candidates by requestID that returned
\* id: a call on WatchedAccount alone that reads counter 0 starts a burst, later
\* calls on WatchedAccount alone with the same max and a new request id extend it
RecordSelect(b, h, candidates, requestID, id) ==
    LET solo == DOMAIN candidates = {WatchedAccount}
        word == IF id = WatchedAccount THEN "granted"
                ELSE IF id = 0 THEN "denied" ELSE "other"
    IN  IF solo
        THEN LET n == candidates[WatchedAccount].max_concurrency
                 base == IF HGETCounter(h, WatchedAccount) = 0
                         THEN [FreshSelBurst EXCEPT !.n = n] ELSE b
             IN  IF base.n # n \/ base.res[requestID] # "none"
                 THEN BrokenSelBurst
                 ELSE [base EXCEPT !.res[requestID] = word]
        ELSE IF id = WatchedAccount THEN BrokenSelBurst ELSE b

\* the caller's side of one request id
IdleHandle == [pc |-> "idle", acct |-> 0, calls |-> 0]

\* candidates := []*AccountCandidate{}
NoCandidateList == <<>>

\* a test for an empty list that never finds one
NoCandidatesNever(candidates) == FALSE

\* "if len(candidates) == 0"
NoCandidates(candidates) == DOMAIN candidates = {}

\* SelectAndAcquireAccountSlot(ctx, candidates, requestID, timeout) with no
\* candidates: "no candidates provided", before any store call
SelectNoCandidates(requestID) ==
    /\ NoCandidates(NoCandidateList)
    /\ selHandle[requestID].pc = "idle"
    /\ ret' = [op |-> "select", cands |-> {}, spare |-> {}, lowest |-> {},
               nonneg |-> TRUE, id |-> 0, conc |-> 0,
               handle |-> FALSE, transport |-> "none", err |-> TRUE]
    /\ UNCHANGED <<selVars, notSel>>

\* the candidates with spare capacity when the script runs
SpareCandidates(h, candidates) ==
    {c \in DOMAIN candidates : HGETCounter(h, c) < candidates[c].max_concurrency}

\* those of them with the smallest priority value
LowestPriority(candidates, S) ==
    {c \in S : \A d \in S : candidates[c].priority <= candidates[d].priority}

\* SelectAndAcquireAccountSlot with a non-empty candidate list
\* if err != nil { return 0, 0, nil, fmt.Errorf("lua script execution failed: %w", err) };
\* accountID == 0 gives (0, 0, nil, nil), otherwise the account, its counter
\* and the release handle
selectReturn(reply, failed) ==
    IF failed THEN [id |-> 0, conc |-> 0, handle |-> FALSE, err |-> TRUE]
    ELSE IF reply[1] = 0 THEN [id |-> 0, conc |-> 0, handle |-> FALSE, err |-> FALSE]
    ELSE [id |-> reply[1], conc |-> reply[2], handle |-> TRUE, err |-> FALSE]

SelectAndAcquireAccountSlot(candidates, requestID, transport) ==
    /\ ~NoCandidates(candidates)
    /\ selHandle[requestID].pc = "idle"
    /\ \E r \in IF scriptApplied(transport)
                THEN selectScriptRuns(selConc, selMarkers, candidates, requestID)
                ELSE {[conc |-> selConc, markers |-> selMarkers, reply |-> <<0, 0>>]} :
         LET out == selectReturn(r.reply, transportError(transport))
         IN  /\ selConc' = r.conc
             /\ selMarkers' = r.markers
             /\ selHandle' = IF ~out.handle THEN selHandle
                             ELSE [selHandle EXCEPT ![requestID] =
                                      [pc |-> "held", acct |-> out.id, calls |-> 0]]
             /\ selBurst' = IF scriptApplied(transport)
                            THEN RecordSelect(selBurst, selConc, candidates,
                                              requestID, r.reply[1])
                            ELSE selBurst
             /\ ret' = [op |-> "select", cands |-> DOMAIN candidates,
                        spare |-> SpareCandidates(selConc, candidates),
                        lowest |-> LowestPriority(candidates,
                                        SpareCandidates(selConc, candidates)),
                        nonneg |-> \A c \in DOMAIN candidates :
                                        HGETCounter(selConc, c) >= 0,
                        id |-> out.id, conc |-> out.conc, handle |-> out.handle,
                        transport |-> transport, err |-> out.err]
    /\ UNCHANGED notSel

\* a release that leaves the counter as it is
releaseCounterNoop(h, accountID) == h

\* s.redis.HIncrBy(bgCtx, "account_concurrency", accountID, -1)
releaseCounter(h, accountID) == HINCRBY(h, accountID, -1)

\* a release whose store calls run on the ctx of SelectAndAcquireAccountSlot
releaseContextFromCaller(ctxCanceled) == ctxCanceled

\* bgCtx, cancel := context.WithTimeout(context.Background(), 5*time.Second):
\* is the context of the store calls done because the caller's ctx is canceled
releaseContextDone(ctxCanceled) == FALSE

\* releaseFunc, first store call, from a handle in state pc.  Both store
\* calls run on bgCtx, a context.Background() with a 5 s timeout, so whether
\* the ctx given to SelectAndAcquireAccountSlot is canceled by now
\* (ctxCanceled) has no part in them; a store call on a done context would fail,
\* which releaseFunc only prints.
releaseFuncDecrement(requestID, ctxCanceled, pc) ==
    /\ selHandle[requestID].pc = pc
    /\ selHandle[requestID].calls < MaxReleaseCalls
    /\ selConc' = IF releaseContextDone(ctxCanceled) THEN selConc
                  ELSE releaseCounter(selConc, selHandle[requestID].acct)
    /\ selHandle' = [selHandle EXCEPT ![requestID].pc = "decremented",
                                      ![requestID].calls = @ + 1]
    /\ selBurst' = IF selHandle[requestID].acct = WatchedAccount
                   THEN BrokenSelBurst ELSE selBurst
    /\ ret' = [op |-> "release", req |-> requestID, ctxCanceled |-> ctxCanceled]
    /\ UNCHANGED <<selMarkers, notSel>>

\* the first invocation of a release handle starts
ReleaseDecrement(requestID, ctxCanceled) ==
    releaseFuncDecrement(requestID, ctxCanceled, "held")

\* a later invocation of the same handle starts: the closure keeps no record
\* of having run, so it makes the same two store calls again
ReleaseAgainDecrement(requestID, ctxCanceled) ==
    releaseFuncDecrement(requestID, ctxCanceled, "released")

\* releaseFunc, second store call: Del(slot:{accountID}:{requestID})
ReleaseDeleteMarker(requestID, ctxCanceled) ==
    /\ selHandle[requestID].pc = "decremented"
    /\ selMarkers' = IF releaseContextDone(ctxCanceled) THEN selMarkers
                     ELSE selMarkers \ {slotMarkerKey(selHandle[requestID].acct, requestID)}
    /\ selHandle' = [selHandle EXCEPT ![requestID].pc = "released"]
    /\ ret' = [op |-> "release", req |-> requestID, ctxCanceled |-> ctxCanceled]
    /\ UNCHANGED <<selConc, selBurst, notSel>>

\* AtomicScheduler.GetAccountConcurrency
SchedulerGetAccountConcurrency(accountID) ==
    /\ ret' = [op |-> "get", acct |-> accountID,
               val |-> getAccountConcurrency(selConc, accountID)]
    /\ UNCHANGED <<selVars, notSel>>

\* AtomicScheduler.ResetAccountConcurrency
ResetAccountConcurrency(accountID) ==
    /\ selConc' = HDEL(selConc, accountID)
    /\ selBurst' = IF accountID = WatchedAccount THEN BrokenSelBurst ELSE selBurst
    /\ ret' = [op |-> "reset", acct |-> accountID]
    /\ UNCHANGED <<selMarkers, selHandle, notSel>>

\* the SETEX timeout of a marker runs out
MarkerExpires(key) ==
    /\ key \in selMarkers
    /\ selMarkers' = selMarkers \ {key}
    /\ ret' = [op |-> "expire"]
    /\ UNCHANGED <<selConc, selHandle, selBurst, notSel>>

(***************************************************************************)
(* Circuit Breaker.  Every method holds cb.mu for its whole body, so each  *)
(* call is one step.  Time is counted in minutes.                          *)
(***************************************************************************)
NoEntry == -1

\* NewCircuitBreaker: threshold: 5, resetTimeout: 5 * time.Minute
threshold == 5
resetTimeout == 5

\* count >= cb.threshold, read one failure too late (mutation check of C8)
ThresholdReachedLate(count) == count > threshold

\* "return count >= cb.threshold"
ThresholdReached(count) == count >= threshold

\* a staleness test that misses the boundary (mutation check of C9)
StaleStrict(lastFail, t) == t - lastFail > resetTimeout

\* "now.Sub(lastFail) >= cb.resetTimeout" / "time.Since(lastFail) >= cb.resetTimeout"
Stale(lastFail, t) == t - lastFail >= resetTimeout

\* a success that forgives one failure only (mutation check of C10)
ClearedCountDecrement(count) == IF count > 1 THEN count - 1 ELSE NoEntry

\* delete(cb.failureCount, accountID): the count after a success
ClearedCount(count) == NoEntry

\* a RecordFailure that keeps the time of the first failure of an entry
recordFailureKeepsWindow(fc, lf, accountID, t) ==
    LET stale == lf[accountID] # NoEntry /\ Stale(lf[accountID], t)
        fc1 == IF stale THEN [fc EXCEPT ![accountID] = NoEntry] ELSE fc
        old == IF fc1[accountID] = NoEntry THEN 0 ELSE fc1[accountID]
    IN  [fc |-> [fc1 EXCEPT ![accountID] = old + 1],
         lf |-> IF old = 0 THEN [lf EXCEPT ![accountID] = t] ELSE lf]

\* the maps after RecordFailure(accountID) at time t
recordFailure(fc, lf, accountID, t) ==
    LET stale == lf[accountID] # NoEntry /\ Stale(lf[accountID], t)
        fc1 == IF stale THEN [fc EXCEPT ![accountID] = NoEntry] ELSE fc
        old == IF fc1[accountID] = NoEntry THEN 0 ELSE fc1[accountID]
    IN  [fc |-> [fc1 EXCEPT ![accountID] = old + 1],
         lf |-> [lf EXCEPT ![accountID] = t]]

\* the value IsOpen(accountID) returns at time t
isOpen(fc, lf, accountID, t) ==
    IF fc[accountID] = NoEntry THEN FALSE
    ELSE IF lf[accountID] = NoEntry THEN FALSE
    ELSE IF Stale(lf[accountID], t) THEN FALSE
    ELSE ThresholdReached(fc[accountID])

\* the maps after RecordSuccess(accountID)
recordSuccess(fc, lf, accountID) ==
    IF fc[accountID] # NoEntry
    THEN [fc |-> [fc EXCEPT ![accountID] = ClearedCount(@)],
          lf |-> [lf EXCEPT ![accountID] = NoEntry]]
    ELSE [fc |-> fc, lf |-> lf]

Min(a, b) == IF a <= b THEN a ELSE b

RecordFailure(accountID) ==
    LET r == recordFailure(failureCount, lastFailTime, accountID, cbNow)
    IN  /\ r.fc[accountID] <= MaxFailures
        /\ failureCount' = r.fc
        /\ lastFailTime' = r.lf
        /\ cbStreak' = [cbStreak EXCEPT ![accountID] =
                IF @ > 0 /\ cbNow - cbLastCall[accountID] < resetTimeout
                THEN @ + 1 ELSE 1]
        /\ cbLastCall' = [cbLastCall EXCEPT ![accountID] = cbNow]
        /\ cbSince' = [cbSince EXCEPT ![accountID] = Min(@ + 1, threshold)]
        /\ ret' = [op |-> "failure", acct |-> accountID]
        /\ UNCHANGED <<cbNow, notCB>>

IsOpen(accountID) ==
    /\ ret' = [op |-> "isOpen", acct |-> accountID,
               val |-> isOpen(failureCount, lastFailTime, accountID, cbNow)]
    /\ UNCHANGED <<cbVars, notCB>>

RecordSuccess(accountID) ==
    LET r == recordSuccess(failureCount, lastFailTime, accountID)
    IN  /\ failureCount' = r.fc
        /\ lastFailTime' = r.lf
        /\ cbStreak' = [cbStreak EXCEPT ![accountID] = 0]
        /\ cbSince' = [cbSince EXCEPT ![accountID] = 0]
        /\ ret' = [op |-> "success", acct |-> accountID,
                   wasOpen |-> isOpen(failureCount, lastFailTime, accountID, cbNow)]
        /\ UNCHANGED <<cbNow, cbLastCall, notCB>>

\* a minute passes
ClockTick ==
    /\ cbNow < MaxClock
    /\ cbNow' = cbNow + 1
    /\ ret' = [op |-> "tick"]
    /\ UNCHANGED <<failureCount, lastFailTime, cbStreak, cbLastCall, cbSince, notCB>>

(***************************************************************************)
(* Circuit Breaker, statement by statement.  Goroutines call the methods   *)
(* concurrently; a method runs one statement per step and holds cb.mu from *)
(* its Lock / RLock to its deferred Unlock / RUnlock.                      *)
(***************************************************************************)
FreeMutex == [writers |-> {}, readers |-> {}]

NoCall == [pc |-> "idle", acct |-> 0, count |-> 0, val |-> FALSE]

\* a mutex that never makes a caller wait
LockAdmitsAlways(mu) == TRUE

\* cb.mu.Lock() returns when no goroutine holds the mutex
LockAdmits(mu) == mu.writers = {} /\ mu.readers = {}

\* cb.mu.RLock() returns when no goroutine holds the mutex as writer
RLockAdmits(mu) == mu.writers = {}

CountOf(a) == IF failureCount[a] = NoEntry THEN 0 ELSE failureCount[a]

\* a goroutine calls RecordFailure(accountID) / IsOpen / RecordSuccess
CallRecordFailure(g, accountID) ==
    /\ cbCall[g].pc = "idle"
    /\ CountOf(accountID) < MaxFailures
    /\ cbCall' = [cbCall EXCEPT ![g] = [NoCall EXCEPT !.pc = "rf_lock", !.acct = accountID]]
    /\ UNCHANGED <<cbMu, cbDone, failureCount, lastFailTime, ret, notMu>>

CallIsOpen(g, accountID) ==
    /\ cbCall[g].pc = "idle"
    /\ cbCall' = [cbCall EXCEPT ![g] = [NoCall EXCEPT !.pc = "io_rlock", !.acct = accountID]]
    /\ UNCHANGED <<cbMu, cbDone, failureCount, lastFailTime, ret, notMu>>

CallRecordSuccess(g, accountID) ==
    /\ cbCall[g].pc = "idle"
    /\ cbCall' = [cbCall EXCEPT ![g] = [NoCall EXCEPT !.pc = "rs_lock", !.acct = accountID]]
    /\ UNCHANGED <<cbMu, cbDone, failureCount, lastFailTime, ret, notMu>>

\* cb.mu.Lock() of RecordFailure and of RecordSuccess
MuLock(g) ==
    /\ cbCall[g].pc \in {"rf_lock", "rs_lock"}
    /\ LockAdmits(cbMu)
    /\ cbMu' = [cbMu EXCEPT !.writers = @ \cup {g}]
    /\ cbCall' = [cbCall EXCEPT ![g].pc =
                     IF cbCall[g].pc = "rf_lock" THEN "rf_stale" ELSE "rs_count"]
    /\ UNCHANGED <<cbDone, failureCount, lastFailTime, ret, notMu>>

\* RecordFailure: now := time.Now(); a stale entry is deleted from both maps
RecordFailureForgive(g) ==
    LET a == cbCall[g].acct
        stale == lastFailTime[a] # NoEntry /\ Stale(lastFailTime[a], cbNow)
    IN  /\ cbCall[g].pc = "rf_stale"
        /\ failureCount' = IF stale THEN [failureCount EXCEPT ![a] = NoEntry]
                           ELSE failureCount
        /\ lastFailTime' = IF stale THEN [lastFailTime EXCEPT ![a] = NoEntry]
                           ELSE lastFailTime
        /\ cbCall' = [cbCall EXCEPT ![g].pc = "rf_read"]
        /\ UNCHANGED <<cbMu, cbDone, ret, notMu>>

\* cb.failureCount[accountID]++ : the read of the map entry
RecordFailureRead(g) ==
    /\ cbCall[g].pc = "rf_read"
    /\ cbCall' = [cbCall EXCEPT ![g].pc = "rf_write",
                                ![g].count = CountOf(cbCall[g].acct)]
    /\ UNCHANGED <<cbMu, cbDone, failureCount, lastFailTime, ret, notMu>>

\* cb.failureCount[accountID]++ : the write of the incremented value
RecordFailureWrite(g) ==
    /\ cbCall[g].pc = "rf_write"
    /\ failureCount' = [failureCount EXCEPT ![cbCall[g].acct] = cbCall[g].count + 1]
    /\ cbCall' = [cbCall EXCEPT ![g].pc = "rf_time"]
    /\ UNCHANGED <<cbMu, cbDone, lastFailTime, ret, notMu>>

\* cb.lastFailTime[accountID] = now
RecordFailureTime(g) ==
    /\ cbCall[g].pc = "rf_time"
    /\ lastFailTime' = [lastFailTime EXCEPT ![cbCall[g].acct] = cbNow]
    /\ cbCall' = [cbCall EXCEPT ![g].pc = "rf_unlock"]
    /\ UNCHANGED <<cbMu, cbDone, failureCount, ret, notMu>>

\* RecordSuccess: delete(cb.failureCount, accountID) when the entry exists
RecordSuccessDeleteCount(g) ==
    LET a == cbCall[g].acct
    IN  /\ cbCall[g].pc = "rs_count"
        /\ failureCount' = [failureCount EXCEPT ![a] = NoEntry]
        /\ cbCall' = [cbCall EXCEPT ![g].pc =
                         IF failureCount[a] # NoEntry THEN "rs_time" ELSE "rs_unlock"]
        /\ UNCHANGED <<cbMu, cbDone, lastFailTime, ret, notMu>>

\* RecordSuccess: delete(cb.lastFailTime, accountID)
RecordSuccessDeleteTime(g) ==
    /\ cbCall[g].pc = "rs_time"
    /\ lastFailTime' = [lastFailTime EXCEPT ![cbCall[g].acct] = NoEntry]
    /\ cbCall' = [cbCall EXCEPT ![g].pc = "rs_unlock"]
    /\ UNCHANGED <<cbMu, cbDone, failureCount, ret, notMu>>

\* the deferred cb.mu.Unlock(): the method returns
MuUnlock(g) ==
    LET a == cbCall[g].acct
        failed == cbCall[g].pc = "rf_unlock"
    IN  /\ cbCall[g].pc \in {"rf_unlock", "rs_unlock"}
        /\ cbMu' = [cbMu EXCEPT !.writers = @ \ {g}]
        /\ cbDone' = [cbDone EXCEPT ![a] = IF failed THEN @ + 1 ELSE 0]
        /\ cbCall' = [cbCall EXCEPT ![g] = NoCall]
        /\ ret' = [op |-> IF failed THEN "failureReturned" ELSE "successReturned",
                   acct |-> a]
        /\ UNCHANGED <<failureCount, lastFailTime, notMu>>

\* cb.mu.RLock() of IsOpen
MuRLock(g) ==
    /\ cbCall[g].pc = "io_rlock"
    /\ RLockAdmits(cbMu)
    /\ cbMu' = [cbMu EXCEPT !.readers = @ \cup {g}]
    /\ cbCall' = [cbCall EXCEPT ![g].pc = "io_read"]
    /\ UNCHANGED <<cbDone, failureCount, lastFailTime, ret, notMu>>

\* the body of IsOpen: the two map reads and the comparisons
IsOpenRead(g) ==
    /\ cbCall[g].pc = "io_read"
    /\ cbCall' = [cbCall EXCEPT ![g].pc = "io_runlock",
                                ![g].val = isOpen(failureCount, lastFailTime,
                                                  cbCall[g].acct, cbNow)]
    /\ UNCHANGED <<cbMu, cbDone, failureCount, lastFailTime, ret, notMu>>

\* the deferred cb.mu.RUnlock(): IsOpen returns
MuRUnlock(g) ==
    /\ cbCall[g].pc = "io_runlock"
    /\ cbMu' = [cbMu EXCEPT !.readers = @ \ {g}]
    /\ cbCall' = [cbCall EXCEPT ![g] = NoCall]
    /\ ret' = [op |-> "isOpenReturned", acct |-> cbCall[g].acct, val |-> cbCall[g].val]
    /\ UNCHANGED <<cbDone, failureCount, lastFailTime, notMu>>

(***************************************************************************)
(* Specifications                                                          *)
(***************************************************************************)

SlotIdle ==
    /\ slotKey = accountSlotKey(1)
    /\ slotSet = EmptyZSet
    /\ slotExpire = NoTTL
    /\ slotMax = 1
    /\ slotBurst = FreshBurst
    /\ slotHeld = NoneHeld
    /\ slotShare = 1

WaitIdle ==
    /\ wq = EmptyWaitQueue
    /\ waitMax = 1

\* NewAtomicScheduler on an empty store
SelIdle ==
    /\ selConc = [a \in Accounts |-> NoField]
    /\ selMarkers = {}
    /\ selHandle = [r \in Requests |-> IdleHandle]
    /\ selBurst = FreshSelBurst

\* NewCircuitBreaker: both maps empty
CBIdle ==
    /\ cbNow = 0
    /\ failureCount = [a \in BreakerAccounts |-> NoEntry]
    /\ lastFailTime = [a \in BreakerAccounts |-> NoEntry]
    /\ cbStreak = [a \in BreakerAccounts |-> 0]
    /\ cbLastCall = [a \in BreakerAccounts |-> 0]
    /\ cbSince = [a \in BreakerAccounts |-> 0]
    /\ cbMu = FreeMutex
    /\ cbCall = [g \in Goroutines |-> NoCall]
    /\ cbDone = [a \in BreakerAccounts |-> 0]

SlotInit ==
    /\ now = 0
    /\ ret = [op |-> "init"]
    /\ slotKey \in SlotKeys
    /\ slotSet = EmptyZSet
    /\ slotExpire = NoTTL
    /\ slotMax \in 1..MaxConcurrency
    /\ slotBurst = FreshBurst
    /\ slotHeld = NoneHeld
    /\ slotShare = 1
    /\ WaitIdle
    /\ SelIdle
    /\ CBIdle

SlotNext ==
    \/ \E r \in Tokens : AcquireAccountSlot(1, slotMax, r, ReachableStore)
    \/ \E r \in Tokens : AcquireUserSlot(1, slotMax, r, ReachableStore)
    \/ \E r \in Tokens : \E ctxCanceled \in BOOLEAN : ReleaseAccountSlot(1, r, ctxCanceled)
    \/ \E r \in Tokens : \E ctxCanceled \in BOOLEAN : ReleaseUserSlot(1, r, ctxCanceled)
    \/ GetAccountConcurrency(1)
    \/ GetUserConcurrency(1)
    \/ SlotTick

SpecSlot == SlotInit /\ [][SlotNext]_vars

\* the slot ledger with callers that run several concurrent requests under
\* one holder token (an empty or otherwise shared request id)
SlotSharedInit ==
    /\ now = 0
    /\ ret = [op |-> "init"]
    /\ slotKey \in SlotKeys
    /\ slotSet = EmptyZSet
    /\ slotExpire = NoTTL
    /\ slotMax \in 1..MaxConcurrency
    /\ slotBurst = FreshBurst
    /\ slotHeld = NoneHeld
    /\ slotShare = MaxSharers
    /\ WaitIdle
    /\ SelIdle
    /\ CBIdle

SlotSharedNext ==
    \/ \E r \in Tokens : AcquireAccountSlot(1, slotMax, r, ReachableStore)
    \/ \E r \in Tokens : AcquireUserSlot(1, slotMax, r, ReachableStore)
    \/ \E r \in Tokens : \E ctxCanceled \in BOOLEAN : ReleaseAccountSlot(1, r, ctxCanceled)
    \/ \E r \in Tokens : \E ctxCanceled \in BOOLEAN : ReleaseUserSlot(1, r, ctxCanceled)
    \/ GetAccountConcurrency(1)
    \/ GetUserConcurrency(1)

SpecSlotShared == SlotSharedInit /\ [][SlotSharedNext]_vars

WaitInit ==
    /\ now = 0
    /\ ret = [op |-> "init"]
    /\ wq = EmptyWaitQueue
    /\ waitMax \in 1..MaxWait
    /\ SlotIdle
    /\ SelIdle
    /\ CBIdle

WaitNext ==
    \/ \E u \in Users : IncrementWaitCount(u, waitMax, ReachableStore)
    \/ \E u \in Users : DecrementWaitCount(u)
    \/ GetTotalWaitCount
    \/ WaitTick

SpecWait == WaitInit /\ [][WaitNext]_vars

WaitLossNext ==
    \/ \E u \in Users : IncrementWaitCount(u, waitMax, ReachableStore)
    \/ \E u \in Users : DecrementWaitCount(u)
    \/ GetTotalWaitCount
    \/ WaitTick
    \/ LoseTotalKey

SpecWaitLoss == WaitInit /\ [][WaitLossNext]_vars

SelInit ==
    /\ now = 0
    /\ ret = [op |-> "init"]
    /\ selConc = [a \in Accounts |-> NoField]
    /\ selMarkers = {}
    /\ selHandle = [r \in Requests |-> IdleHandle]
    /\ selBurst = FreshSelBurst
    /\ SlotIdle
    /\ WaitIdle
    /\ CBIdle

SelNext ==
    \/ \E r \in Requests : SelectNoCandidates(r)
    \/ \E r \in Requests : \E candidates \in CandidateLists \cup {NoCandidateList} :
            SelectAndAcquireAccountSlot(candidates, r, ReachableStore)
    \/ \E r \in Requests : \E ctxCanceled \in BOOLEAN : ReleaseDecrement(r, ctxCanceled)
    \/ \E r \in Requests : \E ctxCanceled \in BOOLEAN : ReleaseDeleteMarker(r, ctxCanceled)
    \/ \E a \in Accounts : SchedulerGetAccountConcurrency(a)
    \/ \E a \in Accounts : ResetAccountConcurrency(a)
    \/ \E a \in Accounts : \E r \in Requests : MarkerExpires(slotMarkerKey(a, r))

SpecSel == SelInit /\ [][SelNext]_vars

\* the selector with callers that may invoke a release handle more than once
SelTwiceNext ==
    \/ \E r \in Requests : \E candidates \in CandidateLists :
            SelectAndAcquireAccountSlot(candidates, r, ReachableStore)
    \/ \E r \in Requests : \E ctxCanceled \in BOOLEAN : ReleaseDecrement(r, ctxCanceled)
    \/ \E r \in Requests : \E ctxCanceled \in BOOLEAN : ReleaseDeleteMarker(r, ctxCanceled)
    \/ \E r \in Requests : \E ctxCanceled \in BOOLEAN :
            ReleaseAgainDecrement(r, ctxCanceled)
    \/ \E a \in Accounts : SchedulerGetAccountConcurrency(a)

SpecSelTwice == SelInit /\ [][SelTwiceNext]_vars

\* the three admission calls against a store whose commands may fail on the
\* wire. The components keep disjoint keys, so a call of one never reads or
\* writes the state of another: each is run from the empty store while the
\* other two are untouched.
TransportInit ==
    /\ now = 0
    /\ ret = [op |-> "init"]
    /\ SlotIdle
    /\ WaitIdle
    /\ SelIdle
    /\ CBIdle

\* candidate lists of equal priority and equal limit
FlatCandidateLists ==
    {c \in CandidateLists : \A a \in DOMAIN c :
        c[a].priority = 1 /\ c[a].max_concurrency = MaxCandidateConcurrency}

TransportNext ==
    \/ /\ WaitIdle /\ SelIdle
       /\ \E r \in Tokens : \E t \in Transports :
            AcquireAccountSlot(1, MaxConcurrency, r, t)
    \/ /\ WaitIdle /\ SelIdle
       /\ \E r \in Tokens : \E ctxCanceled \in BOOLEAN :
            ReleaseAccountSlot(1, r, ctxCanceled)
    \/ /\ SlotIdle /\ SelIdle
       /\ \E u \in Users : \E t \in Transports :
            IncrementWaitCount(u, MaxWait, t)
    \/ /\ SlotIdle /\ SelIdle
       /\ \E u \in Users : DecrementWaitCount(u)
    \/ /\ SlotIdle /\ WaitIdle
       /\ \E r \in Requests : \E candidates \in FlatCandidateLists : \E t \in Transports :
            SelectAndAcquireAccountSlot(candidates, r, t)

SpecTransport == TransportInit /\ [][TransportNext]_vars

\* both admission paths in use for account 1: callers of the slot ledger
\* (one more than the set admits) and callers of the selector with account 1
\* among their candidates, interleaved on one store
BothTokens == {t \in Tokens : t <= slotMax + 1}

BothCandidateLists == {c \in FlatCandidateLists : 1 \in DOMAIN c}

BothNext ==
    \/ \E r \in BothTokens : AcquireAccountSlot(1, slotMax, r, ReachableStore)
    \/ \E r \in BothTokens : ReleaseAccountSlot(1, r, FALSE)
    \/ \E r \in Requests : \E candidates \in BothCandidateLists :
            SelectAndAcquireAccountSlot(candidates, r, ReachableStore)
    \/ \E r \in Requests : ReleaseDecrement(r, FALSE)
    \/ \E r \in Requests : ReleaseDeleteMarker(r, FALSE)

SpecBoth == TransportInit /\ [][BothNext]_vars

\* the selector with callers that use each request id once and invoke each
\* release handle once, with no maintenance reset and within the markers' TTL
SelOnceNext ==
    \/ \E r \in Requests : \E candidates \in CandidateLists :
            SelectAndAcquireAccountSlot(candidates, r, ReachableStore)
    \/ \E r \in Requests : \E ctxCanceled \in BOOLEAN : ReleaseDecrement(r, ctxCanceled)
    \/ \E r \in Requests : \E ctxCanceled \in BOOLEAN : ReleaseDeleteMarker(r, ctxCanceled)
    \/ \E a \in Accounts : SchedulerGetAccountConcurrency(a)

SpecSelOnce == SelInit /\ [][SelOnceNext]_vars

CBInit ==
    /\ now = 0
    /\ ret = [op |-> "init"]
    /\ CBIdle
    /\ SlotIdle
    /\ WaitIdle
    /\ SelIdle

CBNext ==
    \/ \E a \in BreakerAccounts : RecordFailure(a)
    \/ \E a \in BreakerAccounts : IsOpen(a)
    \/ \E a \in BreakerAccounts : RecordSuccess(a)
    \/ ClockTick

SpecCB == CBInit /\ [][CBNext]_vars

\* the breaker called by concurrent goroutines, statement by statement, with
\* the clock standing still
CBLockNext ==
    \/ \E g \in Goroutines : \E a \in BreakerAccounts : CallRecordFailure(g, a)
    \/ \E g \in Goroutines : \E a \in BreakerAccounts : CallIsOpen(g, a)
    \/ \E g \in Goroutines : \E a \in BreakerAccounts : CallRecordSuccess(g, a)
    \/ \E g \in Goroutines : MuLock(g)
    \/ \E g \in Goroutines : RecordFailureForgive(g)
    \/ \E g \in Goroutines : RecordFailureRead(g)
    \/ \E g \in Goroutines : RecordFailureWrite(g)
    \/ \E g \in Goroutines : RecordFailureTime(g)
    \/ \E g \in Goroutines : RecordSuccessDeleteCount(g)
    \/ \E g \in Goroutines : RecordSuccessDeleteTime(g)
    \/ \E g \in Goroutines : MuUnlock(g)
    \/ \E g \in Goroutines : MuRLock(g)
    \/ \E g \in Goroutines : IsOpenRead(g)
    \/ \E g \in Goroutines : MuRUnlock(g)

SpecCBLock == CBInit /\ [][CBLockNext]_vars

\* the breaker in a process that keeps running: callers may stop calling, the
\* clock does not stop. The breaker starts no goroutine and no timer of its
\* own, so the passing of time is all that is bound to happen.
SpecCBLive == CBInit /\ [][CBNext]_vars /\ WF_vars(ClockTick)

(***************************************************************************)
(* Properties of the Slot Ledger (SpecSlot)                                *)
(***************************************************************************)
BurstCalled == {t \in Tokens : slotBurst.res[t] # "none"}
BurstGranted == {t \in Tokens : slotBurst.res[t] = "granted"}
BurstDenied == {t \in Tokens : slotBurst.res[t] = "denied"}

\* the members count would still report: timestamp newer than now - ttl
LiveMembers == {m \in ZMembers(slotSet) : slotSet[m] > now - SlotTTL}

\* C1: on a scope that was empty, once M > N acquire calls with pairwise
\* distinct tokens have run with no release and no clock tick in between,
\* exactly N of them were granted, M - N were denied, and count(scope) is N.
C1_BurstGrantsExactlyN ==
    (slotBurst.ok /\ Cardinality(BurstCalled) > slotMax) =>
        /\ Cardinality(BurstGranted) = slotMax
        /\ Cardinality(BurstDenied) = Cardinality(BurstCalled) - slotMax
        /\ getCountScript(slotSet, slotExpire, SlotTTL, now).val = slotMax

C1_Witness ==
    /\ slotBurst.ok
    /\ slotMax >= 2
    /\ Cardinality(BurstCalled) >= slotMax + 2
    /\ ret.op = "acquire"
    /\ ret.val = FALSE

\* C2: in every reachable state the number of members whose timestamp is
\* newer than now - ttl is at most maxConcurrency.
C2_LiveSlotsWithinMax == Cardinality(LiveMembers) <= slotMax

\* a scope filled again after earlier slots expired has just denied a call
C2_Witness ==
    /\ Cardinality(LiveMembers) = slotMax
    /\ slotMax >= 2
    /\ now >= SlotTTL
    /\ ret.op = "acquire"
    /\ ret.val = FALSE

\* C11: an acquire with a token that is a live member of the scope's set is
\* granted and leaves the live members, hence count(scope), as they were,
\* whatever the current count, a full scope included.
C11_ReacquireGrantedCountUnchanged ==
    [][(ret'.op = "acquire" /\ ret'.tok \in LiveMembers) =>
          /\ ret'.val
          /\ LiveMembers' = LiveMembers
          /\ ZMembers(slotSet') = LiveMembers
          /\ getCountScript(slotSet', slotExpire', SlotTTL, now').val
                = Cardinality(LiveMembers)]_vars

\* a held token was acquired again on a full scope
C11_Witness ==
    /\ ret.op = "acquire"
    /\ ret.refreshed
    /\ ret.val
    /\ slotMax >= 2
    /\ Cardinality(LiveMembers) = slotMax

\* C12: a member whose timestamp is ttl or more behind the store clock is no
\* longer in the set after the next acquire or count on the scope, a count
\* returns the number of live members only, and an acquire with a new token
\* is granted whenever the live members are fewer than maxConcurrency, even
\* when the set with its expired members was full.
C12_ExpiredSlotNotCounted ==
    [][(ret'.op \in {"acquire", "count"}) =>
          /\ \A m \in ZMembers(slotSet') : slotSet'[m] > now' - SlotTTL
          /\ ret'.op = "count" => ret'.val = Cardinality(LiveMembers)
          /\ (ret'.op = "acquire" /\ ret'.tok \notin LiveMembers
                /\ Cardinality(LiveMembers) < slotMax) =>
                  (ret'.val /\ ret'.tok \in ZMembers(slotSet'))]_vars

\* a full scope lost one member to the sweep of an acquire with a new token,
\* which took its place
C12_Witness ==
    /\ ret.op = "acquire"
    /\ ret.val
    /\ ~ret.refreshed
    /\ ret.swept = 1
    /\ slotMax >= 2
    /\ ZCARD(slotSet) = slotMax

\* C13: a release that reaches the store removes the member of its token and
\* nothing else (nothing at all when the token is not a member); the members
\* are always among the tokens granted and not released since, so once every
\* granted token has been released count(scope) is 0.
C13_ReleaseRemovesOnlyItsToken ==
    /\ [](/\ ZMembers(slotSet) \subseteq HeldTokens(slotHeld)
          /\ HeldTokens(slotHeld) = {} =>
                getCountScript(slotSet, slotExpire, SlotTTL, now).val = 0)
    /\ [][(ret'.op = "release" /\ ~ret'.err) =>
             /\ slotSet' = [slotSet EXCEPT ![ret'.tok] = Absent]
             /\ ret'.tok \notin ZMembers(slotSet) => slotSet' = slotSet]_vars

\* a release took its member out and left another one in place
C13_Witness ==
    /\ ret.op = "release"
    /\ ret.removed = 1
    /\ ZCARD(slotSet) >= 1

\* C21: a release invoked while the caller's ctx is canceled still removes
\* the member of its token from the scope's set.
C21_ReleaseIgnoresCallerContext ==
    [][(ret'.op = "release" /\ ret'.ctxCanceled) =>
          ret'.tok \notin ZMembers(slotSet')]_vars

\* the requests granted and not released, over all tokens
RECURSIVE SumHeld(_, _)
SumHeld(held, S) ==
    IF S = {} THEN 0
    ELSE LET t == CHOOSE x \in S : TRUE IN held[t] + SumHeld(held, S \ {t})

RequestsAdmitted == SumHeld(slotHeld, Tokens)

\* C24: when callers run several requests under one token, an acquire under
\* a token that is a member is granted as one more admitted request while
\* the set keeps its single member for the token, and a release by one of
\* the requests removes that member, whatever the number of requests that
\* still run under the token.
C24_SharedTokenCollapses ==
    [][/\ (ret'.op = "acquire" /\ ret'.tok \in LiveMembers) =>
             /\ ret'.val
             /\ ZMembers(slotSet') = ZMembers(slotSet)
             /\ slotHeld[ret'.tok] < slotShare =>
                    RequestsAdmitted' = RequestsAdmitted + 1
       /\ (ret'.op = "release" /\ ~ret'.err) =>
             ret'.tok \notin ZMembers(slotSet')]_vars

\* more requests are admitted than maxConcurrency, and the release by one of
\* two requests under one token took the member of both
C24_Witness ==
    /\ ret.op = "release"
    /\ ~ret.err
    /\ ret.removed = 1
    /\ slotHeld[ret.tok] >= 1
    /\ RequestsAdmitted > slotMax
    /\ ZCARD(slotSet) < slotMax

(***************************************************************************)
(* Properties of the Wait-Queue Ledger (SpecWait, SpecWaitLoss)            *)
(***************************************************************************)
\* the total as every script reads it: GET totalKey, 0 when the key is absent
WaitTotalValue == IF wq.total = NoKey THEN 0 ELSE wq.total

\* C3: after any sequence of increment, decrement and totalDepth calls and
\* clock ticks, the global total equals the sum of the per-user counts in the
\* counts hash.
C3_TotalEqualsSumOfCounts == WaitTotalValue = SumCounts(wq.counts)

\* a call has just swept an idle user while another user still waits
C3_Witness ==
    /\ ret.op \in {"increment", "decrement", "total"}
    /\ ret.swept >= 1
    /\ SumCounts(wq.counts) >= 2
    /\ wq.total = SumCounts(wq.counts)

\* C4: a totalDepth call that finds the total key lost while the counts hash
\* holds a positive sum recomputes the total as that sum, stores it in the
\* total key and returns it.
C4_LostTotalRecomputed ==
    (ret.op = "total" /\ ret.lost /\ SumCounts(wq.counts) > 0) =>
        /\ ret.val = SumCounts(wq.counts)
        /\ wq.total = SumCounts(wq.counts)

\* the wait queue after the SETNX and the idle sweep of an increment or
\* decrement call made now
AfterIdleSweep == CleanupExpired(SETNX0(wq), now, SlotTTL, WaitCleanupLimit)

\* C14: an increment is admitted exactly when the user's count after the
\* call's idle sweep is below maxWait; an admitted call leaves the user's
\* count and the total each one above their values after the sweep, a
\* rejected one leaves them at those values; and no user's count ever exceeds
\* the maxWait every call passes.
C14_AdmittedBelowMaxWait ==
    /\ [](\A u \in Users : HGET0(wq.counts, waitQueueKey(u)) <= waitMax)
    /\ [][(ret'.op = "increment") =>
             LET uid == waitQueueKey(ret'.user)
                 current == HGET0(AfterIdleSweep.counts, uid)
             IN  /\ ret'.val <=> current < waitMax
                 /\ ret'.val =>
                      /\ HGET0(wq'.counts, uid) = current + 1
                      /\ wq'.total = AfterIdleSweep.total + 1
                 /\ ~ret'.val =>
                      /\ HGET0(wq'.counts, uid) = current
                      /\ wq'.total = AfterIdleSweep.total]_vars

\* a user at maxWait was turned away
C14_Witness ==
    /\ ret.op = "increment"
    /\ ~ret.val
    /\ waitMax >= 2
    /\ HGET0(wq.counts, waitQueueKey(ret.user)) = waitMax

\* C15 as stated: no count and no stored total is ever negative, and a
\* decrement for a user who holds no ticket leaves that user's count and the
\* total as they were before the call.
C15_NoTicketDecrementChangesNothing ==
    /\ [](/\ \A u \in HFields(wq.counts) : wq.counts[u] >= 0
          /\ wq.total # NoKey => wq.total >= 0)
    /\ [][(ret'.op = "decrement" /\ HGET0(wq.counts, waitQueueKey(ret'.user)) = 0) =>
             /\ HGET0(wq'.counts, waitQueueKey(ret'.user)) = 0
             /\ WaitTotalValue' = WaitTotalValue]_vars

\* C15, amended: no count and no stored total is ever negative, and a
\* decrement for a user who holds no ticket does nothing beyond its idle
\* sweep: the user's count stays 0, the counts and the total are those the
\* sweep leaves (the total lowered by the counts of the users swept), and the
\* total is unchanged when nobody is swept.
C15_NoTicketDecrementOnlySweeps ==
    /\ [](/\ \A u \in HFields(wq.counts) : wq.counts[u] >= 1
          /\ wq.total # NoKey => wq.total >= 0)
    /\ [][(ret'.op = "decrement" /\ HGET0(wq.counts, waitQueueKey(ret'.user)) = 0) =>
             /\ HGET0(wq'.counts, waitQueueKey(ret'.user)) = 0
             /\ wq'.counts = AfterIdleSweep.counts
             /\ wq'.total = AfterIdleSweep.total
             /\ WaitTotalValue' = WaitTotalValue
                    - (SumCounts(wq.counts) - SumCounts(wq'.counts))
             /\ ret'.swept = 0 => WaitTotalValue' = WaitTotalValue]_vars

\* a decrement for a user without a ticket swept an idle user
C15_Witness ==
    /\ ret.op = "decrement"
    /\ ret.swept >= 1
    /\ HGET0(wq.counts, waitQueueKey(ret.user)) = 0
    /\ wq.updated[waitQueueKey(ret.user)] = Absent
    /\ wq.total >= 1

(***************************************************************************)
(* Properties of the Circuit Breaker (SpecCB)                              *)
(***************************************************************************)
IsOpenNow(a) == isOpen(failureCount, lastFailTime, a, cbNow)

\* C8: counting RecordFailure calls that follow one another less than
\* resetTimeout apart with no RecordSuccess in between, right after each of
\* the first threshold-1 calls IsOpen is false, and right after the
\* threshold-th call it is true.
C8_ThresholdthFailureOpens ==
    ret.op = "failure" =>
        /\ cbStreak[ret.acct] \in 1..(threshold - 1) => ~IsOpenNow(ret.acct)
        /\ cbStreak[ret.acct] = threshold => IsOpenNow(ret.acct)

\* the fifth failure in a row, the failures spread over several minutes
C8_Witness ==
    /\ ret.op = "failure"
    /\ cbStreak[ret.acct] = threshold
    /\ IsOpenNow(ret.acct)
    /\ cbNow >= 2

\* C9: at every time IsOpen(account) is true exactly when the account's
\* failure count (0 without an entry) is at least threshold and less than
\* resetTimeout has passed since its last failure time; so once resetTimeout
\* has passed since the last RecordFailure call the account reads as closed,
\* with no RecordSuccess.
C9_OpenIffCountAndWindow ==
    \A a \in BreakerAccounts :
        /\ IsOpenNow(a) <=>
              /\ failureCount[a] # NoEntry
              /\ lastFailTime[a] # NoEntry
              /\ failureCount[a] >= threshold
              /\ cbNow - lastFailTime[a] < resetTimeout
        /\ (cbStreak[a] > 0 /\ cbNow - cbLastCall[a] >= resetTimeout) => ~IsOpenNow(a)

\* an account that tripped is asked after resetTimeout: its entry is still in
\* the maps and IsOpen returns false
C9_Witness ==
    /\ ret.op = "isOpen"
    /\ ret.val = FALSE
    /\ failureCount[ret.acct] # NoEntry
    /\ failureCount[ret.acct] >= threshold
    /\ cbNow - lastFailTime[ret.acct] >= resetTimeout

\* C10: RecordSuccess removes the account's entry whatever its state, IsOpen
\* is false right after it, and IsOpen is true again only after at least
\* threshold further RecordFailure calls.
C10_SuccessClearsAndRestarts ==
    /\ ret.op = "success" =>
          /\ failureCount[ret.acct] = NoEntry
          /\ lastFailTime[ret.acct] = NoEntry
          /\ ~IsOpenNow(ret.acct)
    /\ \A a \in BreakerAccounts : IsOpenNow(a) => cbSince[a] >= threshold

\* a success recorded on an open account
C10_Witness ==
    /\ ret.op = "success"
    /\ ret.wasOpen
    /\ failureCount[ret.acct] = NoEntry
    /\ cbSince[ret.acct] = 0

(***************************************************************************)
(* Candidate Selector claims, checked under SpecSel.                        *)
(***************************************************************************)
SelBurstCalled == {r \in Requests : selBurst.res[r] # "none"}

SelBurstGranted == {r \in Requests : selBurst.res[r] = "granted"}

SelBurstDenied == {r \in Requests : selBurst.res[r] = "denied"}

\* C5: calls with distinct request ids on one account alone, from counter 0,
\* with max concurrency N and no release: the counter equals the number of
\* successes and never exceeds N, and once M > N calls have returned exactly
\* N succeeded, M - N returned the "no account" result and the counter is N.
C5_BurstReservesExactlyN ==
    (selBurst.ok /\ SelBurstCalled # {}) =>
        LET counter == HGETCounter(selConc, WatchedAccount)
        IN  /\ counter <= selBurst.n
            /\ counter = Cardinality(SelBurstGranted)
            /\ SelBurstCalled = SelBurstGranted \cup SelBurstDenied
            /\ Cardinality(SelBurstCalled) > selBurst.n =>
                  /\ Cardinality(SelBurstGranted) = selBurst.n
                  /\ Cardinality(SelBurstDenied)
                        = Cardinality(SelBurstCalled) - selBurst.n
                  /\ counter = selBurst.n

C5_Witness ==
    /\ selBurst.ok
    /\ selBurst.n = MaxCandidateConcurrency
    /\ Cardinality(SelBurstCalled) > selBurst.n
    /\ Cardinality(SelBurstGranted) = selBurst.n
    /\ SelBurstDenied # {}
    /\ ret.op = "select"
    /\ ret.id = 0

\* C6: the account a selection returns had spare capacity (counter below its
\* max concurrency) when the script ran, and a selection among candidates of
\* which at least one had spare capacity returns one of those, not 0.
C6_ReturnedAccountHadSpare ==
    (ret.op = "select" /\ ~ret.err) =>
        /\ ret.id # 0 => ret.id \in ret.spare
        /\ ret.spare # {} => ret.id \in ret.spare

C6_Witness ==
    /\ ret.op = "select"
    /\ ~ret.err
    /\ ret.spare # {}
    /\ ret.cands \ ret.spare # {}
    /\ ret.id \in ret.spare

\* C7: a selection among candidates that are all at or above their max
\* concurrency returns id 0, count 0, no release handle and no error, and
\* leaves the counter hash and the slot markers as they were.
C7_SaturatedSelectChangesNothing ==
    [][(ret'.op = "select" /\ ~ret'.err /\ ret'.spare = {}) =>
          /\ ret'.id = 0
          /\ ret'.conc = 0
          /\ ~ret'.handle
          /\ selConc' = selConc
          /\ selMarkers' = selMarkers]_vars

C7_Witness ==
    /\ ret.op = "select"
    /\ ~ret.err
    /\ ret.cands = Accounts
    /\ ret.spare = {}
    /\ ret.id = 0
    /\ ret.conc = 0
    /\ ~ret.handle

\* C16: when no candidate's counter is negative, the account a selection
\* returns has the smallest priority value among the candidates with spare
\* capacity, whatever the jitter draws and the loads.
C16_LowestPriorityWithSpareWins ==
    (ret.op = "select" /\ ~ret.err /\ ret.nonneg /\ ret.spare # {}) =>
        ret.id \in ret.lowest

\* the loaded candidate with the smaller priority value won over an idle one
C16_Witness ==
    /\ ret.op = "select"
    /\ ~ret.err
    /\ ret.nonneg
    /\ ret.spare = Accounts
    /\ ret.lowest # ret.spare
    /\ ret.id \in ret.lowest
    /\ ret.conc >= 2
    /\ \E a \in Accounts : HGETCounter(selConc, a) = 0

\* the release step a transition with ret'.op = "release" has taken
ReleaseStep == selHandle[ret'.req].pc

ReleasedAccount == selHandle[ret'.req].acct

MarkersOf(a) == {r \in Requests : slotMarkerKey(a, r) \in selMarkers}

\* C17: a successful selection returns the counter of the selected account
\* after its increment (the value before plus 1), the counter holds that
\* value and GetAccountConcurrency returns what the counter holds; one
\* invocation of the release handle lowers that counter by 1 again, touching
\* no other counter, and deletes the reservation's marker.
C17_ReleaseUndoesSelect ==
    [][/\ (ret'.op = "select" /\ ~ret'.err /\ ret'.id # 0) =>
             /\ ret'.conc = HGETCounter(selConc, ret'.id) + 1
             /\ HGETCounter(selConc', ret'.id) = ret'.conc
             /\ \E r \in Requests :
                    /\ selHandle[r].pc = "idle"
                    /\ selHandle'[r].pc = "held"
                    /\ selHandle'[r].acct = ret'.id
                    /\ slotMarkerKey(ret'.id, r) \in selMarkers'
       /\ ret'.op = "get" => ret'.val = HGETCounter(selConc, ret'.acct)
       /\ (ret'.op = "release" /\ ReleaseStep = "held") =>
             /\ HGETCounter(selConc', ReleasedAccount)
                    = HGETCounter(selConc, ReleasedAccount) - 1
             /\ \A a \in Accounts \ {ReleasedAccount} : selConc'[a] = selConc[a]
       /\ (ret'.op = "release" /\ ReleaseStep = "decremented") =>
             /\ selConc' = selConc
             /\ slotMarkerKey(ReleasedAccount, ret'.req) \notin selMarkers'
             /\ selHandle'[ret'.req].pc = "released"]_vars

\* the only reservation made so far has been released: the counter reads 0
\* again and the marker is gone
C17_Witness ==
    /\ ret.op = "release"
    /\ selHandle[ret.req].pc = "released"
    /\ \A r \in Requests \ {ret.req} : selHandle[r].pc = "idle"
    /\ selConc[selHandle[ret.req].acct] = 0
    /\ \A a \in Accounts \ {selHandle[ret.req].acct} : selConc[a] = NoField
    /\ selMarkers = {}

\* C18: an invocation of a release handle that has been invoked before
\* leaves every account counter and every marker as it finds them.
C18_SecondReleaseIsNoop ==
    [][(ret'.op = "release" /\ selHandle'[ret'.req].calls >= 2) =>
          /\ selConc' = selConc
          /\ selMarkers' = selMarkers]_vars

\* C19: a reservation whose marker has run out of its TTL no longer counts
\* against the account: no counter exceeds the number of markers of its
\* account that are still alive.
C19_ExpiredReservationNotCounted ==
    \A a \in Accounts : HGETCounter(selConc, a) <= Cardinality(MarkersOf(a))

\* C20: an invocation of the release handle while the ctx that was given to
\* SelectAndAcquireAccountSlot is canceled still lowers the counter by 1 and
\* deletes the marker.
C20_ReleaseIgnoresCallerContext ==
    [][(ret'.op = "release" /\ ret'.ctxCanceled) =>
          /\ ReleaseStep = "held" =>
                HGETCounter(selConc', ReleasedAccount)
                    = HGETCounter(selConc, ReleasedAccount) - 1
          /\ ReleaseStep = "decremented" =>
                slotMarkerKey(ReleasedAccount, ret'.req) \notin selMarkers']_vars

\* a handle whose caller's ctx was canceled has deleted a marker that was
\* still there, the counter already lowered
C20_Witness ==
    /\ ret.op = "release"
    /\ ret.ctxCanceled
    /\ selHandle[ret.req].pc = "released"
    /\ selConc[selHandle[ret.req].acct] = 0
    /\ selMarkers = {}
    /\ \E r \in Requests : r # ret.req /\ selHandle[r].pc = "held"

\* C22: a selection with an empty candidate list returns an error with
\* account id 0, count 0 and no release handle, and leaves every counter and
\* every marker as it was.
C22_EmptyCandidatesIsError ==
    [][(ret'.op = "select" /\ ret'.cands = {}) =>
          /\ ret'.err
          /\ ret'.id = 0
          /\ ret'.conc = 0
          /\ ~ret'.handle
          /\ selConc' = selConc
          /\ selMarkers' = selMarkers
          /\ selHandle' = selHandle]_vars

\* an empty list was refused while the store held a reservation
C22_Witness ==
    /\ ret.op = "select"
    /\ ret.cands = {}
    /\ ret.err
    /\ selMarkers # {}
    /\ \E a \in Accounts : HGETCounter(selConc, a) >= 1

\* a store call whose command or reply was lost on the wire
StoreCallFailed ==
    /\ ret.op \in {"acquire", "increment", "select"}
    /\ ret.transport \in {"unsent", "lost"}

\* C23: when the store call of a slot acquire, a wait-queue increment or a
\* selection fails on the wire, the caller gets the error together with a
\* non-granted result (false, or account 0 with counter 0 and no release
\* handle): never a grant, and never a denial without the error
C23_TransportErrorSurfaced ==
    StoreCallFailed =>
        /\ ret.err
        /\ ret.op \in {"acquire", "increment"} => ~ret.val
        /\ ret.op = "select" => ret.id = 0 /\ ret.conc = 0 /\ ~ret.handle

\* a selection whose reply was lost after the store made the reservation
C23_Witness ==
    /\ StoreCallFailed
    /\ ret.op = "select"
    /\ ret.transport = "lost"
    /\ ret.err
    /\ \E a \in Accounts : HGETCounter(selConc, a) = 1
    /\ \A r \in Requests : selHandle[r].pc = "idle"

\* C25: GetAccountConcurrency returns 0 for an account without a counter
\* field and the stored counter otherwise; ResetAccountConcurrency leaves the
\* account reading 0 and every other account's counter as it was
C25_GetAndResetCounter ==
    /\ [](ret.op = "get" =>
            ret.val = IF selConc[ret.acct] = NoField THEN 0 ELSE selConc[ret.acct])
    /\ [][ret'.op = "reset" =>
            /\ getAccountConcurrency(selConc', ret'.acct) = 0
            /\ \A a \in Accounts \ {ret'.acct} : selConc'[a] = selConc[a]]_vars

\* a reset of an account that a request still holds, while the other account
\* has a counter of its own
C25_Witness ==
    /\ ret.op = "reset"
    /\ \E r \in Requests : selHandle[r].pc = "held" /\ selHandle[r].acct = ret.acct
    /\ selConc[ret.acct] = NoField
    /\ \E a \in Accounts \ {ret.acct} : selConc[a] # NoField /\ selConc[a] >= 1

\* the account's previous failure is at least resetTimeout old
StaleEntry(a) ==
    /\ lastFailTime[a] # NoEntry
    /\ cbNow - lastFailTime[a] >= resetTimeout

\* C26: a RecordFailure on an account whose previous failure is at least
\* resetTimeout old discards the old count: the count after the call is
\* exactly 1 whatever it was before, and the account reads as closed
C26_StaleFailureRestartsCount ==
    [][(ret'.op = "failure" /\ StaleEntry(ret'.acct)) =>
            /\ failureCount'[ret'.acct] = 1
            /\ lastFailTime'[ret'.acct] = cbNow
            /\ ~isOpen(failureCount', lastFailTime', ret'.acct, cbNow')]_vars

\* a failure recorded after the window, the count having been 3 or more
C26_Witness ==
    /\ ret.op = "failure"
    /\ failureCount[ret.acct] = 1
    /\ cbStreak[ret.acct] = 1
    /\ cbSince[ret.acct] >= 4
    /\ cbNow >= resetTimeout

\* C27: IsOpen on an account whose last failure is at least resetTimeout old
\* removes the entry (under the write lock, after re-checking), so right
\* after the call the account has no stale entry in the failure maps
C27_IsOpenEvictsStaleEntry ==
    ret.op = "isOpen" => ~StaleEntry(ret.acct)

\* C28: an entry whose last failure is at least resetTimeout old is eventually
\* evicted from the failure maps by background maintenance, also when
\* RecordFailure, RecordSuccess and IsOpen are never called for the account
\* again: a stale entry does not stay in the maps forever (it is evicted, or
\* a later RecordFailure or RecordSuccess replaces or removes it)
C28_StaleEntryEventuallyEvicted ==
    \A a \in BreakerAccounts : StaleEntry(a) ~> ~StaleEntry(a)

\* the users whose last activity is at or before now - ttl
IdleUsers == {u \in ZMembers(wq.updated) : wq.updated[u] <= now - SlotTTL}

\* the tickets of the users in S
RECURSIVE TicketsOf(_, _)
TicketsOf(h, S) ==
    IF S = {} THEN 0
    ELSE LET u == CHOOSE x \in S : TRUE IN HGET0(h, u) + TicketsOf(h, S \ {u})

\* C29: every increment, decrement and totalDepth call first removes idle
\* users (last activity at or before now - ttl), oldest first and as many as
\* there are up to the call's cleanup limit (WaitCleanupLimit for increment
\* and decrement, TotalCleanupLimit for totalDepth); a removed user loses its
\* count and its activity entry, an idle user beyond the limit keeps both,
\* and the total goes down by the removed users' counts (and changes
\* otherwise only by the change of the calling user's own count)
C29_BoundedOldestFirstSweep ==
    [][ret'.op \in {"increment", "decrement", "total"} =>
        LET limit == IF ret'.op = "total" THEN TotalCleanupLimit ELSE WaitCleanupLimit
            caller == IF ret'.op = "total" THEN {} ELSE {waitQueueKey(ret'.user)}
        IN  \E S \in SUBSET IdleUsers :
              /\ Cardinality(S) = Min(Cardinality(IdleUsers), limit)
              /\ ret'.swept = Cardinality(S)
              /\ \A u \in S : \A k \in IdleUsers \ S : wq.updated[u] <= wq.updated[k]
              /\ \A u \in S \ caller :
                    wq'.counts[u] = Absent /\ wq'.updated[u] = Absent
              /\ \A k \in (IdleUsers \ S) \ caller :
                    wq'.counts[k] = wq.counts[k] /\ wq'.updated[k] = wq.updated[k]
              /\ WaitTotalValue' =
                    WaitTotalValue - TicketsOf(wq.counts, S)
                    + TicketsOf(wq'.counts, caller)
                    - TicketsOf(wq.counts, caller \ S)]_vars

\* a call swept as many idle users as its limit allows and left an idle user
\* with tickets for a later call
C29_Witness ==
    /\ ret.op \in {"increment", "decrement"}
    /\ ret.swept = WaitCleanupLimit
    /\ \E k \in IdleUsers : HGET0(wq.counts, k) >= 1

\* C30: an increment that is not admitted leaves the calling user's count and
\* activity time as they were, leaves every non-idle user's entries as they
\* were, and changes nothing but what the idle sweep removes: an idle user
\* either keeps its entries or loses both, no key's TTL is set, and the total
\* goes down by exactly the tickets of the idle users removed
C30_RejectedIncrementOnlySweeps ==
    [][(ret'.op = "increment" /\ ~ret'.err /\ ~ret'.val) =>
        LET uid == waitQueueKey(ret'.user)
        IN  /\ wq'.counts[uid] = wq.counts[uid]
            /\ wq'.updated[uid] = wq.updated[uid]
            /\ \A k \in Users \ IdleUsers :
                  wq'.counts[k] = wq.counts[k] /\ wq'.updated[k] = wq.updated[k]
            /\ \A k \in IdleUsers :
                  \/ wq'.counts[k] = wq.counts[k] /\ wq'.updated[k] = wq.updated[k]
                  \/ wq'.counts[k] = Absent /\ wq'.updated[k] = Absent
            /\ \A key \in {"total", "updated", "counts"} :
                  wq'.exp[key] \in {wq.exp[key], NoTTL}
            /\ WaitTotalValue - WaitTotalValue' =
                  TicketsOf(wq.counts, IdleUsers) - TicketsOf(wq'.counts, IdleUsers)]_vars

\* a user at maxWait was turned away by a call that swept an idle user
C30_Witness ==
    /\ ret.op = "increment"
    /\ ~ret.err
    /\ ~ret.val
    /\ ret.swept >= 1
    /\ HGET0(wq.counts, waitQueueKey(ret.user)) >= 1
    /\ wq.updated[waitQueueKey(ret.user)] < now

\* C31: in every reachable state the users in the activity sorted set are the
\* users in the counts hash, and every stored count is at least 1
C31_ActivityMatchesCounts ==
    /\ ZMembers(wq.updated) = HFields(wq.counts)
    /\ \A u \in HFields(wq.counts) : wq.counts[u] >= 1

\* a decrement took a user's last ticket while another user still waits
C31_Witness ==
    /\ ret.op = "decrement"
    /\ ret.last
    /\ wq.counts[waitQueueKey(ret.user)] = Absent
    /\ wq.updated[waitQueueKey(ret.user)] = Absent
    /\ HFields(wq.counts) # {}

\* C32: an acquire with a token that is a live member is granted and moves
\* the member's timestamp (and the key's expiry) to the current store time;
\* and a member leaves the set only by a release of its token or when its
\* timestamp is at least ttl old, so a holder that re-acquires at intervals
\* shorter than ttl is never swept
C32_ReacquireExtendsSlot ==
    [][/\ (ret'.op = "acquire" /\ ~ret'.err /\ ret'.tok \in LiveMembers) =>
             /\ ret'.val
             /\ slotSet'[ret'.tok] = now
             /\ slotExpire' = now + SlotTTL
       /\ \A m \in ZMembers(slotSet) \ ZMembers(slotSet') :
             \/ ret'.op = "release" /\ ret'.tok = m
             \/ slotSet[m] <= now' - SlotTTL]_vars

\* a holder re-acquired in a call that swept another holder's member, which
\* had not been refreshed
C32_Witness ==
    /\ ret.op = "acquire"
    /\ ret.refreshed
    /\ ret.swept >= 1
    /\ slotSet[ret.tok] = now
    /\ now > SlotTTL

\* C38: the key of a scope's set outlives every member's own ttl, and when
\* the key's expiry fires and the whole set goes, a count run at that moment
\* on the set as it was would have reported no live slot
C38_KeyExpiryDropsOnlyExpiredSlots ==
    /\ [](ZMembers(slotSet) # {} =>
            /\ slotExpire # NoTTL
            /\ \A m \in ZMembers(slotSet) : slotSet[m] + SlotTTL <= slotExpire)
    /\ [][(ret'.op = "tick" /\ ret'.dropped >= 1) =>
            /\ ZMembers(slotSet') = {}
            /\ getCountScript(slotSet, slotExpire, SlotTTL, now').val = 0]_vars

\* the expiry of the key took two members that no call had swept
C38_Witness ==
    /\ ret.op = "tick"
    /\ ret.dropped >= 2
    /\ ZMembers(slotSet) = {}
    /\ slotExpire = NoTTL

(***************************************************************************)
(* The two admission paths together (SpecBoth)                             *)
(***************************************************************************)
\* the keys the selector and its release handles use
SelectorKeys ==
    {accountConcurrencyKey} \cup {slotMarkerKey(a, r) : a \in Accounts, r \in Requests}

\* the last step was a call of the selector / of the slot ledger
SelectorStep ==
    \/ ret'.op \in {"select", "get", "reset"}
    \/ ret'.op = "release" /\ "req" \in DOMAIN ret'

LedgerStep ==
    \/ ret'.op \in {"acquire", "count"}
    \/ ret'.op = "release" /\ "tok" \in DOMAIN ret'

\* the counter field as stored, 0 without a field
StoredCounter(a) == IF selConc[a] = NoField THEN 0 ELSE selConc[a]

\* C33: the selector's keys and the slot ledger's keys are different keys; a
\* selector call or release handle leaves the ledger's set as it is and a
\* ledger call leaves the counter hash and the markers as they are; and a
\* reservation of one path does not count in the other: a selection is
\* granted whenever a candidate's own counter is below its max (here
\* MaxCandidateConcurrency for every candidate), whatever the ledger's set
\* holds, and a ledger acquire is granted exactly when its token is a member
\* or the set has room, whatever the counters are
C33_PathsAreIndependent ==
    /\ [](SelectorKeys \cap SlotKeys = {})
    /\ [][/\ SelectorStep => slotSet' = slotSet /\ slotExpire' = slotExpire
          /\ LedgerStep => selConc' = selConc /\ selMarkers' = selMarkers
          /\ (ret'.op = "select" /\ ~ret'.err) =>
                (ret'.id # 0 <=>
                    \E c \in ret'.cands : StoredCounter(c) < MaxCandidateConcurrency)
          /\ (ret'.op = "acquire" /\ ~ret'.err) =>
                (ret'.val <=> \/ ret'.tok \in ZMembers(slotSet)
                              \/ ZCARD(slotSet) < slotMax)]_vars

\* account 1 was selected although its ledger set is full, and its counter
\* shows a reservation the ledger's set does not hold
C33_Witness ==
    /\ ret.op = "select"
    /\ ret.id = 1
    /\ slotKey = accountSlotKey(1)
    /\ ZCARD(slotSet) = slotMax
    /\ StoredCounter(1) > ZCARD(slotSet)

(***************************************************************************)
(* Further properties of the Candidate Selector (SpecSel)                  *)
(***************************************************************************)
\* C34: with release handles invoked at most once each, no account's counter
\* in account_concurrency is ever negative
C34_CounterNeverNegative ==
    \A a \in Accounts : StoredCounter(a) >= 0

\* no release handle is between its two store calls
NoReleaseMidway == \A r \in Requests : selHandle[r].pc # "decremented"

\* the requests that hold a reservation of account a and have not released it
HoldersOf(a) == {r \in Requests : selHandle[r].pc = "held" /\ selHandle[r].acct = a}

\* C35: with request ids used once, release handles invoked once, no reset
\* and no marker expiry, whenever no release handle is midway every
\* account's counter equals the number of its reservations not yet released
\* and the number of its slot:{account}:* markers
C35_CounterMatchesReservations ==
    NoReleaseMidway =>
        \A a \in Accounts :
            /\ StoredCounter(a) = Cardinality(HoldersOf(a))
            /\ Cardinality(MarkersOf(a)) = Cardinality(HoldersOf(a))

\* an account with one reservation held and another one released
C35_Witness ==
    /\ NoReleaseMidway
    /\ \E a \in Accounts :
          /\ Cardinality(HoldersOf(a)) = 1
          /\ StoredCounter(a) = 1
          /\ \E r \in Requests : selHandle[r].pc = "released" /\ selHandle[r].acct = a

(***************************************************************************)
(* Further properties of the Circuit Breaker (SpecCB)                      *)
(***************************************************************************)
\* C36: a RecordFailure on an open account keeps counting and restarts the
\* reset window (the account is open right after it, its last failure time
\* is the time of the call), and an open account becomes closed only by a
\* RecordSuccess for it or by the clock reaching resetTimeout after its last
\* RecordFailure call
C36_FailureOnOpenRestartsWindow ==
    [][\A a \in BreakerAccounts :
         /\ (IsOpenNow(a) /\ ret'.op = "failure" /\ ret'.acct = a) =>
               /\ failureCount'[a] = failureCount[a] + 1
               /\ lastFailTime'[a] = cbNow
               /\ isOpen(failureCount', lastFailTime', a, cbNow')
               /\ \A t \in cbNow..(cbNow + resetTimeout - 1) :
                     isOpen(failureCount', lastFailTime', a, t)
         /\ (IsOpenNow(a) /\ ~isOpen(failureCount', lastFailTime', a, cbNow')) =>
               \/ ret'.op = "success" /\ ret'.acct = a
               \/ ret'.op = "tick" /\ cbNow' - cbLastCall[a] >= resetTimeout]_vars

\* a failure was recorded on an account that was already open, after the
\* clock had advanced
C36_Witness ==
    /\ ret.op = "failure"
    /\ failureCount[ret.acct] = threshold + 1
    /\ IsOpenNow(ret.acct)
    /\ lastFailTime[ret.acct] = cbNow
    /\ cbNow >= 1

\* C37: the mutex serialises the methods (at most one writer, and no reader
\* beside a writer); whenever no goroutine holds it as writer, the account's
\* failure count is the number of RecordFailure calls that returned since the
\* last RecordSuccess returned (no update is lost), and the two maps have the
\* same key set
C37_MutexSerialisesCalls ==
    /\ Cardinality(cbMu.writers) <= 1
    /\ cbMu.writers # {} => cbMu.readers = {}
    /\ cbMu.writers = {} =>
          \A a \in BreakerAccounts :
              /\ CountOf(a) = cbDone[a]
              /\ failureCount[a] = NoEntry <=> lastFailTime[a] = NoEntry

\* two RecordFailure calls on one account are under way at once, one waiting
\* for the mutex the other holds, and two calls have already been counted
C37_Witness ==
    \E g \in Goroutines : \E h \in Goroutines \ {g} :
        /\ cbCall[g].pc = "rf_lock"
        /\ cbCall[h].pc = "rf_unlock"
        /\ cbCall[g].acct = cbCall[h].acct
        /\ failureCount[cbCall[h].acct] >= 2
        /\ cbDone[cbCall[h].acct] = failureCount[cbCall[h].acct] - 1

\* the users whose activity entry is at least as old as user u's
NotNewerThan(q, u) == {k \in ZMembers(q.updated) : q.updated[k] <= q.updated[u]}

\* C39: an idle user (last activity at or before now - ttl) is removed after
\* finitely many ledger calls: every increment, decrement and totalDepth call
\* either removes the user's activity entry (or renews it, when the user is
\* the caller) or removes at least one of the entries that are not newer than
\* the user's, and no step adds an entry that is not newer; so a user with n
\* entries not newer than its own is gone after at most n calls, however many
\* idle users there are.  When no idle user is left, the total is the sum of
\* the counts of the users that have an activity entry
C39_IdleUserSweptInFinitelyManyCalls ==
    /\ [](IdleUsers = {} =>
            WaitTotalValue = TicketsOf(wq.counts, ZMembers(wq.updated)))
    /\ [][\A u \in IdleUsers :
             \/ wq'.updated[u] # wq.updated[u]
             \/ /\ NotNewerThan(wq', u) \subseteq NotNewerThan(wq, u)
                /\ ret'.op \in {"increment", "decrement", "total"} =>
                      NotNewerThan(wq', u) # NotNewerThan(wq, u)]_vars

\* more users were idle than one call sweeps: the call swept the oldest and
\* left an idle user, with tickets, for a later call
C39_Witness ==
    /\ ret.op \in {"increment", "decrement", "total"}
    /\ ret.swept >= 1
    /\ \E k \in IdleUsers : HGET0(wq.counts, k) >= 1
    /\ WaitTotalValue > TicketsOf(wq.counts, ZMembers(wq.updated) \ IdleUsers)

====
